---- MODULE Spec2Model ----
(***************************************************************************)
(* Model of services/ai_engine_service.py: the per-key frame buffers, the  *)
(* batch scheduler (processing_flags), the change gate                     *)
(* (_should_send_update) and the background batch threads                  *)
(* (_process_batch_sync).  Every `with self.buffer_locks[key]` section is  *)
(* one atomic step; code outside a lock section is split at each access    *)
(* to shared state.                                                        *)
(***************************************************************************)
EXTENDS Integers, Sequences, FiniteSets, TLC

\* ------------------------------------------------------------------ bounds
MaxFrames == 8          \* frames accepted over a run
MaxEventFrames == 4     \* frames carried by one frame:new event
MaxLifecycle == 2       \* game:started / game:ended / disconnect events over a run

\* ------------------------------------------------------- program constants
BATCH_SIZE == 4

\* ------------------------------------------------------------ value domains
None == "None"
NoneMsg == <<"None">>                     \* the Python value None where a message is expected

GameIds == {<<"g">>}
PlayerIds == {<<"p">>}

PlayerKey(game_id, player_id) == game_id \o <<":">> \o player_id

Keys == {PlayerKey(g, p) : g \in GameIds, p \in PlayerIds}

\* Texts the vision model can answer with (sequences of characters): the
\* change gate is exercised on all of them, the scheduler on two.
GateMessages == { <<"A", "b">>, <<"a", "b">>, <<"a", "b", "c">>, <<"a", "b", "d">>,
                  <<"x", "y">>, <<>> }

Messages == { <<"A", "b">>, <<"x", "y">> }

\* ------------------------------------- the batch analysis as a function
\* What the sub-analysis of one frame does: future.result() exceeds the
\* timeout or raises, analyze_single_frame returns status "error", or it
\* returns the JSON of the model: one of the three statuses asked for, or a
\* status the prompt does not list.
FrameOutcomes == {"timeout", "error", "ok", "needs_adjustment", "danger", "unlisted"}

\* What the summary call model.generate_content(prompt) does.
SummaryOutcomes == {"text", "raise"}

\* The batches _process_batch_sync passes: the frames of a batch that hold
\* data, as bytes; id stands for the picture and for the observation made of it.
SourceBatches ==
    UNION {{[i \in 1..n |-> [kind |-> "bytes", id |-> i, outcome |-> f[i]]] :
              f \in [1..n -> FrameOutcomes]} : n \in 1..BATCH_SIZE}

\* Variant: only the path of a file loads.
LoadsImagePathsOnly(source) == source.kind = "path"

\* load_image(source) is not None: bytes are returned as they are.
LoadsImage(source) == source.kind = "bytes"

\* The sub-result is kept: no exception and result.get("status") != "error".
Kept(source) == source.outcome \notin {"timeout", "error"}

\* statuses.count(status)
Count(statuses, status) == Len(SelectSeq(statuses, LAMBDA x : x = status))

\* Variant: an adjustment outranks a danger.
OverallStatusAdjustmentFirst(danger_count, adjustment_count) ==
    IF adjustment_count > 0 THEN "needs_adjustment"
    ELSE IF danger_count > 0 THEN "danger"
    ELSE "ok"

\* overall_status
OverallStatus(danger_count, adjustment_count) ==
    IF danger_count > 0 THEN "danger"
    ELSE IF adjustment_count > 0 THEN "needs_adjustment"
    ELSE "ok"

\* s[:n]
Slice(s, n) == SubSeq(s, 1, IF Len(s) < n THEN Len(s) ELSE n)

\* priority_observations
PriorityObservations(statuses, observations, danger_count, adjustment_count) ==
    LET Of(status) ==
            LET idx == SelectSeq([i \in 1..Len(statuses) |-> i],
                                 LAMBDA i : statuses[i] = status)
            IN  [j \in 1..Len(idx) |-> observations[idx[j]]]
    IN  IF danger_count > 0 THEN Slice(Of("danger"), 2)
        ELSE IF adjustment_count > 0 THEN Slice(Of("needs_adjustment"), 2)
        ELSE Slice(observations, 1)

\* status_summary
StatusSummary(danger_count, adjustment_count) ==
    IF danger_count > 0 THEN "URGENT: Safety concerns detected. "
    ELSE IF adjustment_count > 0 THEN "Some adjustments recommended. "
    ELSE "Work proceeding well. "

\* Variant: one fallback message whatever the status.
FallbackMessageForOk(danger_count, adjustment_count) ==
    "Excellent work! Keep maintaining those safety standards."

\* fallback_message
FallbackMessage(danger_count, adjustment_count) ==
    IF danger_count > 0 THEN "Safety alert! Please review your current actions."
    ELSE IF adjustment_count > 0 THEN "Good progress! Consider making some adjustments."
    ELSE "Excellent work! Keep maintaining those safety standards."

\* The message returned when no sub-result was kept.
MonitoringMessage == "I'm monitoring the workspace. Keep working safely!"

\* analyze_frame_batch_detailed(batch_sources, task): the dict it returns and
\* the prompts it gave to the summary call.
analyze_frame_batch_detailed(batch_sources, summary) ==
    LET valid_images == SelectSeq(batch_sources, LoadsImage)
        kept == SelectSeq(valid_images, Kept)
        statuses == [i \in 1..Len(kept) |-> kept[i].outcome]
        observations == [i \in 1..Len(kept) |-> kept[i].id]
        danger_count == Count(statuses, "danger")
        adjustment_count == Count(statuses, "needs_adjustment")
        ok_count == Count(statuses, "ok")
        prompt == [status_summary |-> StatusSummary(danger_count, adjustment_count),
                   frames |-> Len(valid_images),
                   priority_observations |->
                       PriorityObservations(statuses, observations,
                                            danger_count, adjustment_count)]
    IN  IF valid_images = <<>>
        THEN [result |-> [status |-> "error",
                          message |-> "No valid images found to analyze.",
                          has_changes |-> FALSE],
              prompts |-> <<>>]
        ELSE IF observations = <<>>
        THEN [result |-> [status |-> "ok",
                          message |-> MonitoringMessage,
                          has_changes |-> FALSE],
              prompts |-> <<>>]
        ELSE [result |-> [status |-> OverallStatus(danger_count, adjustment_count),
                          message |-> IF summary = "text" THEN "response.text"
                                      ELSE FallbackMessage(danger_count, adjustment_count),
                          has_changes |-> TRUE,
                          danger_count |-> danger_count,
                          adjustment_count |-> adjustment_count,
                          ok_count |-> ok_count],
              prompts |-> <<prompt>>]

\* The statuses analyze_frame_batch_detailed returns to _process_batch_sync.
Statuses ==
    {analyze_frame_batch_detailed(b, summary).result.status :
        b \in SourceBatches, summary \in SummaryOutcomes}

AnalysisResults == [status : Statuses, message : Messages]

GateResults == [status : Statuses, message : GateMessages]

InitialState ==
    [status |-> None, observation |-> NoneMsg, analysis_result |-> NoneMsg,
     first_message_sent |-> FALSE]

\* ----------------------------------------------------------- str.lower()
LowerChar(c) ==
    CASE c = "A" -> "a"
      [] c = "B" -> "b"
      [] c = "X" -> "x"
      [] c = "Y" -> "y"
      [] OTHER -> c

Lower(s) == [i \in 1..Len(s) |-> LowerChar(s[i])]

\* ------------------------------------------- difflib.SequenceMatcher.ratio
\* Blocks a[i+1..i+k] = b[j+1..j+k] inside a[alo+1..ahi], b[blo+1..bhi].
IsMatch(a, b, i, j, k) == \A d \in 1..k : a[i + d] = b[j + d]

Candidates(a, b, alo, ahi, blo, bhi) ==
    {c \in (alo..ahi) \X (blo..bhi) \X (0..(ahi - alo)) :
        /\ c[1] + c[3] <= ahi
        /\ c[2] + c[3] <= bhi
        /\ IsMatch(a, b, c[1], c[2], c[3])}

\* Longest block; of those the one starting earliest in a, then earliest in b.
FindLongestMatch(a, b, alo, ahi, blo, bhi) ==
    LET cs == Candidates(a, b, alo, ahi, blo, bhi)
        best == {c \in cs : \A d \in cs : d[3] <= c[3]}
        firstA == {c \in best : \A d \in best : c[1] <= d[1]}
    IN  CHOOSE c \in firstA : \A d \in firstA : c[2] <= d[2]

RECURSIVE MatchingSize(_, _, _, _, _, _)
MatchingSize(a, b, alo, ahi, blo, bhi) ==
    IF alo >= ahi \/ blo >= bhi THEN 0
    ELSE LET m == FindLongestMatch(a, b, alo, ahi, blo, bhi)
         IN  IF m[3] = 0 THEN 0
             ELSE m[3]
                  + MatchingSize(a, b, alo, m[1], blo, m[2])
                  + MatchingSize(a, b, m[1] + m[3], ahi, m[2] + m[3], bhi)

\* ratio() = 2.0 * matches / (len(a) + len(b)), 1.0 when both are empty.
\* RatioBelow(a, b, num, den) is ratio(a, b) < num / den.
RatioBelow(a, b, num, den) ==
    LET total == Len(a) + Len(b)
        matches == MatchingSize(a, b, 0, Len(a), 0, Len(b))
    IN  IF total = 0 THEN den < num
        ELSE 2 * matches * den < num * total

\* similarity < 0.7
SimilarityBelowThreshold(previous_result, current_message) ==
    RatioBelow(Lower(previous_result), Lower(current_message), 7, 10)

\* Python truthiness of previous_state["analysis_result"]
Truthy(m) == m # NoneMsg /\ m # <<>>


\* ------------------------------------------------------------------- state
VARIABLES
    ai_active,          \* self.ai_active
    frame_buffers,      \* self.frame_buffers: key -> deque of frame records
    processing_flags,   \* self.processing_flags: key -> bool
    previous_states,    \* self.previous_states: key -> state dict
    known,              \* keys present in self.frame_buffers, in insertion order
    threads,            \* the _process_batch_sync threads, in the order they were started
    disc_todo,          \* keys the running disconnect handler has still to clear
    status_todo,        \* keys the running get_buffer_status call has still to read
    next_id,            \* number of frame records appended so far
    lifecycle,          \* number of lifecycle events handled so far
    handled,            \* the lifecycle event the last step handled or the event it dropped
    outbox,             \* the messages the last step handed to self.sio.emit and got sent
    spoken,             \* the batches the last step called tts_service.generate_audio for
    raised,             \* the exception the last step's handler let out to its caller
    appended,           \* history: key -> frames appended since the key's last clear
    dispatched,         \* history: key -> frames drained into batches since the key's last clear
    request,            \* the call of a stateless service in progress, with what its external calls will do
    response,           \* what that call returned, with the external calls it made
    commands,           \* command_registry._commands of the voice command service
    buffer_locks        \* the locks of self.buffer_locks held between two steps: {[key, owner]}

\* The state of the AIEngineService object and of its threads.
EngineVars == <<ai_active, frame_buffers, processing_flags, previous_states, known,
                threads, disc_todo, status_todo, next_id, lifecycle, handled, outbox,
                spoken, raised, appended, dispatched, buffer_locks>>

vars == <<ai_active, frame_buffers, processing_flags, previous_states, known,
          threads, disc_todo, status_todo, next_id, lifecycle, handled, outbox,
          spoken, raised, appended, dispatched, request, response, commands,
          buffer_locks>>

\* No call of VisionService or VoiceCommandService is in progress.
NoCall == [fn |-> "None"]

\* ------------------------------------------------ the command table
\* settings.FUZZY_THRESHOLD
FUZZY_THRESHOLD == 75

\* The phrase lists of _register_commands.
forward_commands ==
    {"move forward", "go forward", "walk forward", "step forward", "forward",
     "ahead", "advance", "proceed", "next"}

backward_commands ==
    {"move backward", "go backward", "walk back", "step back", "backward",
     "back", "reverse", "retreat"}

start_commands ==
    {"start", "begin", "launch", "initiate", "open", "run", "activate", "boot"}

exit_commands ==
    {"exit", "quit", "close", "stop", "terminate", "shutdown", "end", "cancel"}

\* command_registry.get_all_phrases()
Phrases == forward_commands \cup backward_commands \cup start_commands \cup exit_commands

\* Variant: the phrase itself is stored as the canonical name.
registerUnderPhrase(table, phrases, canonical, handler) ==
    [phrase \in DOMAIN table \cup phrases |->
        IF phrase \in phrases THEN [canonical |-> phrase, handler |-> handler]
        ELSE table[phrase]]

\* command_registry.register(phrase, canonical, handler), for the phrases of
\* one list: self._commands[phrase] = (canonical, handler).
register(table, phrases, canonical, handler) ==
    [phrase \in DOMAIN table \cup phrases |->
        IF phrase \in phrases THEN [canonical |-> canonical, handler |-> handler]
        ELSE table[phrase]]

\* command_registry._commands after _register_commands: phrase -> (canonical, handler)
Commands ==
    LET forward == register(<<>>, forward_commands, "move_forward", "move_forward")
        backward == register(forward, backward_commands, "move_backward", "move_backward")
        start == register(backward, start_commands, "start_game", "start_arvr")
    IN  register(start, exit_commands, "exit_game", "exit_arvr")

\* command_registry.get_command(phrase)
get_command(phrase) ==
    IF phrase \in DOMAIN commands THEN commands[phrase]
    ELSE [canonical |-> phrase, handler |-> "lambda"]

\* What a handler of CommandHandlers returns.
HandlerText(handler) ==
    CASE handler = "move_forward" -> "Okay, moving forward."
      [] handler = "move_backward" -> "Got it, moving backward."
      [] handler = "start_arvr" -> "Starting the AR VR session now."
      [] handler = "exit_arvr" -> "Exiting the AR VR session."
      [] OTHER -> "Unknown command"


\* No exception leaves the handler.
NoError == [handler |-> "None", error |-> "None"]

\* The step handled no lifecycle event and dropped no event.
NoEvent == [name |-> "None", gameId |-> <<>>, playerId |-> <<>>]

\* A step that handles no lifecycle event and emits nothing.
Silent ==
    /\ handled' = NoEvent
    /\ outbox' = <<>>
    /\ spoken' = <<>>
    /\ UNCHANGED <<request, response, commands>>
    /\ raised' = NoError

\* A silent step outside every lock section.
Quiet ==
    /\ Silent
    /\ UNCHANGED buffer_locks

\* The owners of held locks: the thread running a handler, and batch thread i.
Handler(name) == [name |-> name, thread |-> 0]
BatchThread(i) == [name |-> "_process_batch_sync", thread |-> i]

\* Some thread holds the lock of the key.
Locked(key) == \E l \in buffer_locks : l.key = key

\* Variant: the lock is still held when the section is left.
WithLockKept(owner, key) ==
    /\ \A l \in buffer_locks : l.key = key => l.owner = owner
    /\ buffer_locks' = buffer_locks \cup {[key |-> key, owner |-> owner]}

\* with self.buffer_locks[key]: the step runs one lock section to its end. It
\* waits while another thread holds the key's lock, takes the lock unless an
\* earlier step of the owner took it, and releases it on the way out, by the
\* end of the block, a return or an exception.
WithLock(owner, key) ==
    /\ \A l \in buffer_locks : l.key = key => l.owner = owner
    /\ buffer_locks' = {l \in buffer_locks : l.key # key}

\* A frame record {"data", "path", "ts"}: id stands for the path and timestamp,
\* data tells whether the bytes read from the file are non-empty.
FrameData == {"bytes", "empty"}

\* The frame:new events considered: any number of frames with data, or a
\* full batch of frames read from empty files.
FrameEvents ==
    [n : 0..MaxEventFrames, data : {"bytes"}] \cup [n : {BATCH_SIZE}, data : {"empty"}]

NoAnalysis == [status |-> None, message |-> NoneMsg]

\* ------------------------------------------------------- sequence helpers
\* Variant: the batch is popped from the tail of the deque.
TakeFromTail(s, n) == SubSeq(s, Len(s) - n + 1, Len(s))

Take(s, n) == SubSeq(s, 1, n)
Drop(s, n) == SubSeq(s, n + 1, Len(s))
IsPrefix(s, t) == Len(s) <= Len(t) /\ SubSeq(t, 1, Len(s)) = s
Contains(s, e) == \E i \in 1..Len(s) : s[i] = e
AddKey(ks, k) == IF Contains(ks, k) THEN ks ELSE Append(ks, k)

\* ---------------------------------------------------------- batch threads
\* Variant: every batch counts as having usable data.
HasValidFramesAlways(batch) == batch = batch

\* frame_bytes_list of _process_batch_sync: the frames whose data is truthy.
HasValidFrames(batch) == \E i \in 1..Len(batch) : batch[i].data = "bytes"

\* threading.Thread(target=self._process_batch_sync, args=(batch, ..., key)).start()
NewThread(batch, key) ==
    [key |-> key, batch |-> batch,
     pc |-> IF HasValidFrames(batch) THEN "analyze" ELSE "l324",
     analysis |-> NoAnalysis, entry |-> InitialState, prev |-> InitialState,
     live |-> FALSE, send |-> FALSE]

\* A thread past the change gate and the emit keeps its key and its batch.
Leaving(t, pc) ==
    [key |-> t.key, batch |-> t.batch, pc |-> pc,
     analysis |-> NoAnalysis, entry |-> InitialState, prev |-> InitialState,
     live |-> FALSE, send |-> FALSE]

\* A thread that returned keeps only its key.
Finished(t) == [Leaving(t, "done") EXCEPT !.batch = <<>>]

Running(i) == threads[i].pc # "done"

\* The dict object a thread's previous_state variable refers to: the key's
\* current dict while it has not been replaced, else the replaced dict.
PrevOf(t) == IF t.live THEN previous_states[t.key] ELSE t.prev

\* self.previous_states[key] = {...}: the old dict stays with the threads that hold it.
Detach(ts, key, old) ==
    [i \in 1..Len(ts) |->
        IF ts[i].key = key /\ ts[i].live
        THEN [ts[i] EXCEPT !.live = FALSE, !.prev = old]
        ELSE ts[i]]

Init ==
    /\ ai_active = FALSE
    /\ frame_buffers = [k \in Keys |-> <<>>]
    /\ processing_flags = [k \in Keys |-> FALSE]
    /\ previous_states = [k \in Keys |-> InitialState]
    /\ known = <<>>
    /\ threads = <<>>
    /\ disc_todo = <<>>
    /\ status_todo = <<>>
    /\ next_id = 0
    /\ lifecycle = 0
    /\ handled = NoEvent
    /\ outbox = <<>>
    /\ spoken = <<>>
    /\ request = NoCall
    /\ response = NoCall
    /\ commands = Commands
    /\ buffer_locks = {}
    /\ raised = NoError
    /\ appended = [k \in Keys |-> <<>>]
    /\ dispatched = [k \in Keys |-> <<>>]

\* ----------------------------------------------------------- socket events
\* connect()
Connect ==
    /\ ~ai_active
    /\ ai_active' = TRUE
    /\ Quiet
    /\ UNCHANGED <<frame_buffers, processing_flags, previous_states, known, threads,
                   disc_todo, status_todo, next_id, lifecycle, appended, dispatched>>

\* Variant: the reset leaves the key's previous state as it was.
ResetKeyKeepingState(key) ==
    /\ frame_buffers' = [frame_buffers EXCEPT ![key] = <<>>]
    /\ processing_flags' = [processing_flags EXCEPT ![key] = FALSE]
    /\ previous_states' = previous_states
    /\ threads' = threads
    /\ known' = AddKey(known, key)
    /\ appended' = [appended EXCEPT ![key] = <<>>]
    /\ dispatched' = [dispatched EXCEPT ![key] = <<>>]

\* The lock section shared by on_game_started and on_game_ended.
ResetKey(key) ==
    /\ frame_buffers' = [frame_buffers EXCEPT ![key] = <<>>]
    /\ processing_flags' = [processing_flags EXCEPT ![key] = FALSE]
    /\ previous_states' = [previous_states EXCEPT ![key] = InitialState]
    /\ threads' = Detach(threads, key, previous_states[key])
    /\ known' = AddKey(known, key)
    /\ appended' = [appended EXCEPT ![key] = <<>>]
    /\ dispatched' = [dispatched EXCEPT ![key] = <<>>]

\* Variant: the acknowledgment is emitted twice.
OnGameStartedAckingTwice(game_id, player_id, sent) ==
    /\ lifecycle < MaxLifecycle
    /\ lifecycle' = lifecycle + 1
    /\ ResetKey(PlayerKey(game_id, player_id))
    /\ handled' = [name |-> "game:started", gameId |-> game_id, playerId |-> player_id]
    /\ outbox' = IF sent
                 THEN <<[event |-> "start-game", gameId |-> game_id, playerId |-> player_id],
                        [event |-> "start-game", gameId |-> game_id, playerId |-> player_id]>>
                 ELSE <<>>
    /\ spoken' = <<>>
    /\ UNCHANGED <<request, response, commands>>
    /\ WithLock(Handler("on_game_started"), PlayerKey(game_id, player_id))
    /\ raised' = IF sent THEN NoError
                 ELSE [handler |-> "on_game_started", error |-> "emit"]
    /\ UNCHANGED <<ai_active, disc_todo, status_todo, next_id>>

\* on_game_started(data): the reset under the key's lock, then
\* self.sio.emit("start-game", ...); sent is FALSE when the emit raises.
OnGameStarted(game_id, player_id, sent) ==
    /\ lifecycle < MaxLifecycle
    /\ lifecycle' = lifecycle + 1
    /\ ResetKey(PlayerKey(game_id, player_id))
    /\ handled' = [name |-> "game:started", gameId |-> game_id, playerId |-> player_id]
    /\ outbox' = IF sent
                 THEN <<[event |-> "start-game", gameId |-> game_id, playerId |-> player_id]>>
                 ELSE <<>>
    /\ spoken' = <<>>
    /\ UNCHANGED <<request, response, commands>>
    /\ WithLock(Handler("on_game_started"), PlayerKey(game_id, player_id))
    /\ raised' = IF sent THEN NoError
                 ELSE [handler |-> "on_game_started", error |-> "emit"]
    /\ UNCHANGED <<ai_active, disc_todo, status_todo, next_id>>

\* Variant: the end of one game resets every key.
OnGameEndedForEveryKey(game_id, player_id) ==
    /\ lifecycle < MaxLifecycle
    /\ lifecycle' = lifecycle + 1
    /\ frame_buffers' = [k \in DOMAIN frame_buffers |-> <<>>]
    /\ processing_flags' = [k \in DOMAIN processing_flags |-> FALSE]
    /\ previous_states' = [k \in DOMAIN previous_states |-> InitialState]
    /\ threads' = Detach(threads, PlayerKey(game_id, player_id),
                         previous_states[PlayerKey(game_id, player_id)])
    /\ known' = AddKey(known, PlayerKey(game_id, player_id))
    /\ appended' = [appended EXCEPT ![PlayerKey(game_id, player_id)] = <<>>]
    /\ dispatched' = [dispatched EXCEPT ![PlayerKey(game_id, player_id)] = <<>>]
    /\ handled' = [name |-> "game:ended", gameId |-> game_id, playerId |-> player_id]
    /\ outbox' = <<>>
    /\ spoken' = <<>>
    /\ UNCHANGED <<request, response, commands>>
    /\ WithLock(Handler("on_game_ended"), PlayerKey(game_id, player_id))
    /\ raised' = NoError
    /\ UNCHANGED <<ai_active, disc_todo, status_todo, next_id>>

\* on_game_ended(data)
OnGameEnded(game_id, player_id) ==
    /\ lifecycle < MaxLifecycle
    /\ lifecycle' = lifecycle + 1
    /\ ResetKey(PlayerKey(game_id, player_id))
    /\ handled' = [name |-> "game:ended", gameId |-> game_id, playerId |-> player_id]
    /\ outbox' = <<>>
    /\ spoken' = <<>>
    /\ UNCHANGED <<request, response, commands>>
    /\ WithLock(Handler("on_game_ended"), PlayerKey(game_id, player_id))
    /\ raised' = NoError
    /\ UNCHANGED <<ai_active, disc_todo, status_todo, next_id>>

\* The frame records on_frame_new appends for n readable files.
NewFrames(n, data) == [i \in 1..n |-> [id |-> next_id + i, data |-> data]]

\* Variant: the handler waits while a batch of the key is being analysed or spoken.
OnFrameNewAfterAnalysis(game_id, player_id, n, data) ==
    LET key == PlayerKey(game_id, player_id)
        buf == frame_buffers[key] \o NewFrames(n, data)
        batch == Take(buf, BATCH_SIZE)
    IN  /\ \A i \in 1..Len(threads) :
              threads[i].key = key => threads[i].pc \notin {"analyze", "l377"}
        /\ outbox' = <<>>
        /\ spoken' = <<>>
        /\ UNCHANGED <<request, response, commands>>
        /\ raised' = NoError
        /\ IF game_id = NoneMsg \/ player_id = NoneMsg
           THEN /\ handled' = [name |-> "frame:new", gameId |-> game_id,
                                playerId |-> player_id]
                /\ UNCHANGED <<frame_buffers, processing_flags, known, threads, next_id,
                               appended, dispatched, buffer_locks>>
           ELSE /\ handled' = NoEvent
                /\ WithLock(Handler("on_frame_new"), key)
                /\ next_id + n <= MaxFrames
                /\ next_id' = next_id + n
                /\ known' = AddKey(known, key)
                /\ appended' = [appended EXCEPT ![key] = @ \o NewFrames(n, data)]
                /\ IF Len(buf) >= BATCH_SIZE /\ ~processing_flags[key]
                   THEN /\ processing_flags' = [processing_flags EXCEPT ![key] = TRUE]
                        /\ frame_buffers' =
                              [frame_buffers EXCEPT ![key] = Drop(buf, BATCH_SIZE)]
                        /\ threads' = Append(threads, NewThread(batch, key))
                        /\ dispatched' = [dispatched EXCEPT ![key] = @ \o batch]
                   ELSE /\ frame_buffers' = [frame_buffers EXCEPT ![key] = buf]
                        /\ UNCHANGED <<processing_flags, threads, dispatched>>
        /\ UNCHANGED <<ai_active, previous_states, disc_todo, status_todo, lifecycle>>

\* on_frame_new(data) for an event with n readable frames, all with the given
\* data (frames without a path or an existing file are skipped and add nothing).
\* An event without a gameId or a playerId (None) is logged and dropped.
OnFrameNew(game_id, player_id, n, data) ==
    LET key == PlayerKey(game_id, player_id)
        buf == frame_buffers[key] \o NewFrames(n, data)
        batch == Take(buf, BATCH_SIZE)
    IN  /\ outbox' = <<>>
        /\ spoken' = <<>>
        /\ UNCHANGED <<request, response, commands>>
        /\ raised' = NoError
        /\ IF game_id = NoneMsg \/ player_id = NoneMsg
           THEN /\ handled' = [name |-> "frame:new", gameId |-> game_id,
                                playerId |-> player_id]
                /\ UNCHANGED <<frame_buffers, processing_flags, known, threads, next_id,
                               appended, dispatched, buffer_locks>>
           ELSE /\ handled' = NoEvent
                /\ WithLock(Handler("on_frame_new"), key)
                /\ next_id + n <= MaxFrames
                /\ next_id' = next_id + n
                /\ known' = AddKey(known, key)
                /\ appended' = [appended EXCEPT ![key] = @ \o NewFrames(n, data)]
                /\ IF Len(buf) >= BATCH_SIZE /\ ~processing_flags[key]
                   THEN /\ processing_flags' = [processing_flags EXCEPT ![key] = TRUE]
                        /\ frame_buffers' =
                              [frame_buffers EXCEPT ![key] = Drop(buf, BATCH_SIZE)]
                        /\ threads' = Append(threads, NewThread(batch, key))
                        /\ dispatched' = [dispatched EXCEPT ![key] = @ \o batch]
                   ELSE /\ frame_buffers' = [frame_buffers EXCEPT ![key] = buf]
                        /\ UNCHANGED <<processing_flags, threads, dispatched>>
        /\ UNCHANGED <<ai_active, previous_states, disc_todo, status_todo, lifecycle>>

\* on_frame_new(data) for an event whose frames list holds n readable frames
\* and then an element that is not a dict: frame.get raises inside the lock
\* section, after the n frames were appended and before the size check; the
\* with statement releases the lock and the exception leaves the handler.
OnFrameNewMalformed(game_id, player_id, n, data) ==
    LET key == PlayerKey(game_id, player_id)
    IN  /\ game_id # NoneMsg /\ player_id # NoneMsg
        /\ next_id + n <= MaxFrames
        /\ next_id' = next_id + n
        /\ known' = AddKey(known, key)
        /\ appended' = [appended EXCEPT ![key] = @ \o NewFrames(n, data)]
        /\ frame_buffers' = [frame_buffers EXCEPT ![key] = @ \o NewFrames(n, data)]
        /\ handled' = NoEvent
        /\ outbox' = <<>>
        /\ spoken' = <<>>
        /\ UNCHANGED <<request, response, commands>>
        /\ WithLock(Handler("on_frame_new"), key)
        /\ raised' = [handler |-> "on_frame_new", error |-> "AttributeError"]
        /\ UNCHANGED <<ai_active, processing_flags, previous_states, threads, disc_todo,
                       status_todo, lifecycle, dispatched>>

\* on_frame_new(data) when thread.start() raises (no thread can be created):
\* the flag is set and the batch is taken out of the buffer, no thread runs,
\* and the exception leaves the handler.
OnFrameNewStartFails(game_id, player_id, n, data) ==
    LET key == PlayerKey(game_id, player_id)
        buf == frame_buffers[key] \o NewFrames(n, data)
        batch == Take(buf, BATCH_SIZE)
    IN  /\ game_id # NoneMsg /\ player_id # NoneMsg
        /\ next_id + n <= MaxFrames
        /\ Len(buf) >= BATCH_SIZE /\ ~processing_flags[key]
        /\ next_id' = next_id + n
        /\ known' = AddKey(known, key)
        /\ appended' = [appended EXCEPT ![key] = @ \o NewFrames(n, data)]
        /\ processing_flags' = [processing_flags EXCEPT ![key] = TRUE]
        /\ frame_buffers' = [frame_buffers EXCEPT ![key] = Drop(buf, BATCH_SIZE)]
        /\ dispatched' = [dispatched EXCEPT ![key] = @ \o batch]
        /\ handled' = NoEvent
        /\ outbox' = <<>>
        /\ spoken' = <<>>
        /\ UNCHANGED <<request, response, commands>>
        /\ WithLock(Handler("on_frame_new"), key)
        /\ raised' = [handler |-> "on_frame_new", error |-> "RuntimeError"]
        /\ UNCHANGED <<ai_active, previous_states, threads, disc_todo, status_todo,
                       lifecycle>>

\* disconnect(): ai_active = False, then one lock section per known key.
DisconnectBegin ==
    /\ ai_active
    /\ disc_todo = <<>>
    /\ lifecycle < MaxLifecycle
    /\ lifecycle' = lifecycle + 1
    /\ ai_active' = FALSE
    /\ disc_todo' = known
    /\ UNCHANGED <<frame_buffers, processing_flags, previous_states, known, threads,
                   status_todo, next_id, appended, dispatched>>
    /\ Quiet

DisconnectClear ==
    /\ disc_todo # <<>>
    /\ LET key == Head(disc_todo)
       IN  /\ frame_buffers' = [frame_buffers EXCEPT ![key] = <<>>]
           /\ processing_flags' = [processing_flags EXCEPT ![key] = FALSE]
           /\ appended' = [appended EXCEPT ![key] = <<>>]
           /\ dispatched' = [dispatched EXCEPT ![key] = <<>>]
    /\ disc_todo' = Tail(disc_todo)
    /\ UNCHANGED <<ai_active, previous_states, known, threads, status_todo,
                   next_id, lifecycle>>
    /\ WithLock(Handler("disconnect"), Head(disc_todo))
    /\ Silent

\* The entry get_buffer_status reports for a key, read under the key's lock.
StatusEntry(key) ==
    [frames_in_buffer |-> Len(frame_buffers[key]), is_processing |-> processing_flags[key]]

\* get_buffer_status(): the keys to report are listed first.
GetBufferStatusBegin ==
    /\ status_todo = <<>>
    /\ known # <<>>
    /\ status_todo' = known
    /\ UNCHANGED <<ai_active, frame_buffers, processing_flags, previous_states, known,
                   threads, disc_todo, next_id, lifecycle, appended, dispatched>>
    /\ Quiet

\* One lock section of get_buffer_status: StatusEntry(key) goes into the dict
\* that is returned to the caller after the last key.
GetBufferStatusRead ==
    /\ status_todo # <<>>
    /\ status_todo' = Tail(status_todo)
    /\ UNCHANGED <<ai_active, frame_buffers, processing_flags, previous_states, known,
                   threads, disc_todo, next_id, lifecycle, appended, dispatched>>
    /\ WithLock(Handler("get_buffer_status"), Head(status_todo))
    /\ Silent

\* ------------------------------------------------------ _process_batch_sync
ThreadVarsUnchanged ==
    /\ Quiet
    /\ UNCHANGED <<ai_active, known, disc_todo, status_todo, next_id, lifecycle, appended>>

\* What a lock section of batch thread i leaves alone; the lock is the one of
\* the thread's key.
ThreadSectionVarsUnchanged(i) ==
    /\ WithLock(BatchThread(i), threads[i].key)
    /\ Silent
    /\ UNCHANGED <<ai_active, known, disc_todo, status_todo, next_id, lifecycle, appended>>

\* Variant: no "always send if there's danger" branch.
GateEntryWithoutDanger(result, first_message_sent) ==
    IF ~first_message_sent THEN "l228"
    ELSE IF result.status = "needs_adjustment" THEN "l245"
    ELSE IF result.status = "ok" THEN "l253"
    ELSE "l261"

\* Where _should_send_update goes first for a result, given the
\* first_message_sent field of the dict it was handed (lines 226-261).
GateEntry(result, first_message_sent) ==
    IF ~first_message_sent THEN "l228"
    ELSE IF result.status = "danger" THEN "w_status"
    ELSE IF result.status = "needs_adjustment" THEN "l245"
    ELSE IF result.status = "ok" THEN "l253"
    ELSE "l261"

\* Lines 331-342: the vision call returns `result`; previous_state becomes a
\* reference to the key's current dict, whose first_message_sent never changes.
AnalyzeReturn(i, result) ==
    LET t == threads[i]
    IN  /\ t.pc = "analyze"
        /\ threads' = [threads EXCEPT ![i] =
              [t EXCEPT !.analysis = result, !.live = TRUE,
                        !.entry = previous_states[t.key],
                        !.pc = GateEntry(result, previous_states[t.key].first_message_sent)]]
        /\ UNCHANGED <<frame_buffers, processing_flags, previous_states, dispatched>>
        /\ ThreadVarsUnchanged

\* The vision call raises: control goes to the except clause.
AnalyzeRaise(i) ==
    /\ threads[i].pc = "analyze"
    /\ threads' = [threads EXCEPT ![i] = Leaving(threads[i], "l445")]
    /\ UNCHANGED <<frame_buffers, processing_flags, previous_states, dispatched>>
    /\ ThreadVarsUnchanged

\* Variant: the first message marks the baseline but keeps the old status and texts.
GateBaselineWithoutAdopting(i) ==
    LET t == threads[i]
        new == [previous_states[t.key] EXCEPT !.first_message_sent = TRUE]
    IN  /\ t.pc = "l228"
        /\ previous_states' = [previous_states EXCEPT ![t.key] = new]
        /\ threads' = [Detach(threads, t.key, previous_states[t.key]) EXCEPT ![i] =
              [t EXCEPT !.pc = "l377", !.send = TRUE,
                        !.live = FALSE, !.prev = PrevOf(t)]]
        /\ UNCHANGED <<frame_buffers, processing_flags, dispatched>>
        /\ ThreadVarsUnchanged

\* Lines 226-234: first message, the key gets a new dict.
GateBaseline(i) ==
    LET t == threads[i]
        new == [status |-> t.analysis.status, observation |-> t.analysis.message,
                analysis_result |-> t.analysis.message, first_message_sent |-> TRUE]
    IN  /\ t.pc = "l228"
        /\ previous_states' = [previous_states EXCEPT ![t.key] = new]
        /\ threads' = [Detach(threads, t.key, previous_states[t.key]) EXCEPT ![i] =
              [t EXCEPT !.pc = "l377", !.send = TRUE,
                        !.live = FALSE, !.prev = PrevOf(t)]]
        /\ UNCHANGED <<frame_buffers, processing_flags, dispatched>>
        /\ ThreadVarsUnchanged

\* Variant: only a change from ok to needs_adjustment is sent.
GateRead245FromOkOnly(i) ==
    LET t == threads[i]
    IN  /\ t.pc = "l245"
        /\ threads' = [threads EXCEPT ![i].pc =
              IF PrevOf(t).status = "ok" THEN "w_status" ELSE "l261"]
        /\ UNCHANGED <<frame_buffers, processing_flags, previous_states, dispatched>>
        /\ ThreadVarsUnchanged

\* Line 245: previous_state["status"] != "needs_adjustment"
GateRead245(i) ==
    LET t == threads[i]
    IN  /\ t.pc = "l245"
        /\ threads' = [threads EXCEPT ![i].pc =
              IF PrevOf(t).status # "needs_adjustment" THEN "w_status" ELSE "l261"]
        /\ UNCHANGED <<frame_buffers, processing_flags, previous_states, dispatched>>
        /\ ThreadVarsUnchanged

\* Variant: the recovery branch is never taken.
GateRead253WithoutRecovery(i) ==
    LET t == threads[i]
    IN  /\ t.pc = "l253"
        /\ threads' = [threads EXCEPT ![i].pc = "l261"]
        /\ UNCHANGED <<frame_buffers, processing_flags, previous_states, dispatched>>
        /\ ThreadVarsUnchanged

\* Line 253: previous_state["status"] == "needs_adjustment"
GateRead253(i) ==
    LET t == threads[i]
    IN  /\ t.pc = "l253"
        /\ threads' = [threads EXCEPT ![i].pc =
              IF PrevOf(t).status = "needs_adjustment" THEN "w_status" ELSE "l261"]
        /\ UNCHANGED <<frame_buffers, processing_flags, previous_states, dispatched>>
        /\ ThreadVarsUnchanged

\* Line 261: if previous_state["analysis_result"]; otherwise line 281, return False.
GateRead261(i) ==
    LET t == threads[i]
    IN  /\ t.pc = "l261"
        /\ threads' = [threads EXCEPT ![i] =
              IF Truthy(PrevOf(t).analysis_result)
              THEN [t EXCEPT !.pc = "l265"]
              ELSE [t EXCEPT !.pc = "l347", !.send = FALSE]]
        /\ UNCHANGED <<frame_buffers, processing_flags, previous_states, dispatched>>
        /\ ThreadVarsUnchanged

\* Variant: a similar message goes on to the response all the same.
GateRead265RespondingAnyway(i) ==
    LET t == threads[i]
        prior == PrevOf(t).analysis_result
    IN  /\ t.pc = "l265"
        /\ threads' = [threads EXCEPT ![i] =
              IF SimilarityBelowThreshold(prior, t.analysis.message)
              THEN [t EXCEPT !.pc = "w_status"]
              ELSE [t EXCEPT !.pc = "l377", !.send = FALSE]]
        /\ UNCHANGED <<frame_buffers, processing_flags, previous_states, dispatched>>
        /\ ThreadVarsUnchanged

\* Lines 263-270: the similarity of previous_state["analysis_result"] and the message.
\* A falsy value read here is the empty string (None is never written back).
GateRead265(i) ==
    LET t == threads[i]
        prior == PrevOf(t).analysis_result
    IN  /\ t.pc = "l265"
        /\ threads' = [threads EXCEPT ![i] =
              IF SimilarityBelowThreshold(prior, t.analysis.message)
              THEN [t EXCEPT !.pc = "w_status"]
              ELSE [t EXCEPT !.pc = "l347", !.send = FALSE]]
        /\ UNCHANGED <<frame_buffers, processing_flags, previous_states, dispatched>>
        /\ ThreadVarsUnchanged

\* self.previous_states[player_key]["status"] = current_status
GateWriteStatus(i) ==
    LET t == threads[i]
    IN  /\ t.pc = "w_status"
        /\ previous_states' = [previous_states EXCEPT ![t.key].status = t.analysis.status]
        /\ threads' = [threads EXCEPT ![i].pc = "w_observation"]
        /\ UNCHANGED <<frame_buffers, processing_flags, dispatched>>
        /\ ThreadVarsUnchanged

\* self.previous_states[player_key]["observation"] = current_message
GateWriteObservation(i) ==
    LET t == threads[i]
    IN  /\ t.pc = "w_observation"
        /\ previous_states' = [previous_states EXCEPT ![t.key].observation = t.analysis.message]
        /\ threads' = [threads EXCEPT ![i].pc = "w_analysis_result"]
        /\ UNCHANGED <<frame_buffers, processing_flags, dispatched>>
        /\ ThreadVarsUnchanged

\* self.previous_states[player_key]["analysis_result"] = current_message; return True
GateWriteAnalysisResult(i) ==
    LET t == threads[i]
    IN  /\ t.pc = "w_analysis_result"
        /\ previous_states' = [previous_states EXCEPT ![t.key].analysis_result = t.analysis.message]
        /\ threads' = [threads EXCEPT ![i] = [t EXCEPT !.pc = "l377", !.send = TRUE]]
        /\ UNCHANGED <<frame_buffers, processing_flags, dispatched>>
        /\ ThreadVarsUnchanged

\* What tts_service.generate_audio returns: base64 text, or None on any error.
TtsResults == {None, "base64"}

\* Lines 381-383: no audio becomes the empty string.
AudioField(audio) == IF audio = None THEN "" ELSE audio

\* The ai_response of lines 386-397 for thread t.
AiResponse(t, audio) ==
    [event |-> "ai:response", key |-> t.key, batch |-> t.batch,
     result |-> t.analysis.message, result_audio |-> AudioField(audio)]

\* Variant: without audio there is no response.
RespondOnlyWithAudio(i, audio) ==
    /\ threads[i].pc = "l377"
    /\ audio # None
    /\ threads' = [threads EXCEPT ![i] = Leaving(threads[i], "l414")]
    /\ handled' = NoEvent
    /\ spoken' = <<[key |-> threads[i].key, batch |-> threads[i].batch, audio |-> audio]>>
    /\ UNCHANGED <<request, response, commands, buffer_locks>>
    /\ raised' = NoError
    /\ outbox' = <<AiResponse(threads[i], audio)>>
    /\ UNCHANGED <<frame_buffers, processing_flags, previous_states, dispatched,
                   ai_active, known, disc_todo, status_todo, next_id, lifecycle, appended>>

\* Lines 377-401: text to speech, then self.sio.emit("ai:response", ...).
Respond(i, audio) ==
    /\ threads[i].pc = "l377"
    /\ threads' = [threads EXCEPT ![i] = Leaving(threads[i], "l414")]
    /\ handled' = NoEvent
    /\ spoken' = <<[key |-> threads[i].key, batch |-> threads[i].batch, audio |-> audio]>>
    /\ UNCHANGED <<request, response, commands, buffer_locks>>
    /\ raised' = NoError
    /\ outbox' = <<AiResponse(threads[i], audio)>>
    /\ UNCHANGED <<frame_buffers, processing_flags, previous_states, dispatched,
                   ai_active, known, disc_todo, status_todo, next_id, lifecycle, appended>>

\* Lines 377-401 when self.sio.emit raises: the audio has been rendered,
\* nothing is sent and control goes to the except clause.
RespondRaise(i, audio) ==
    /\ threads[i].pc = "l377"
    /\ threads' = [threads EXCEPT ![i] = Leaving(threads[i], "l445")]
    /\ handled' = NoEvent
    /\ spoken' = <<[key |-> threads[i].key, batch |-> threads[i].batch, audio |-> audio]>>
    /\ UNCHANGED <<request, response, commands, buffer_locks>>
    /\ raised' = NoError
    /\ outbox' = <<>>
    /\ UNCHANGED <<frame_buffers, processing_flags, previous_states, dispatched,
                   ai_active, known, disc_todo, status_todo, next_id, lifecycle, appended>>

\* Variant: frames left over when no next batch starts are thrown away.
NextBatchSectionDroppingRest(i) ==
    LET t == threads[i]
        buf == frame_buffers[t.key]
        next_batch == Take(buf, BATCH_SIZE)
    IN  IF Len(buf) >= BATCH_SIZE
        THEN /\ processing_flags' = [processing_flags EXCEPT ![t.key] = TRUE]
             /\ frame_buffers' = [frame_buffers EXCEPT ![t.key] = Drop(buf, BATCH_SIZE)]
             /\ threads' = Append([threads EXCEPT ![i] = Finished(t)],
                                  NewThread(next_batch, t.key))
             /\ dispatched' = [dispatched EXCEPT ![t.key] = @ \o next_batch]
        ELSE /\ processing_flags' = [processing_flags EXCEPT ![t.key] = FALSE]
             /\ frame_buffers' = [frame_buffers EXCEPT ![t.key] = <<>>]
             /\ threads' = [threads EXCEPT ![i] = Finished(t)]
             /\ UNCHANGED dispatched

\* Variant: the thread puts its own frames back in front of the buffer first.
NextBatchSectionRequeueing(i) ==
    LET t == threads[i]
        buf == t.batch \o frame_buffers[t.key]
        next_batch == Take(buf, BATCH_SIZE)
    IN  IF Len(buf) >= BATCH_SIZE
        THEN /\ processing_flags' = [processing_flags EXCEPT ![t.key] = TRUE]
             /\ frame_buffers' = [frame_buffers EXCEPT ![t.key] = Drop(buf, BATCH_SIZE)]
             /\ threads' = Append([threads EXCEPT ![i] = Finished(t)],
                                  NewThread(next_batch, t.key))
             /\ dispatched' = [dispatched EXCEPT ![t.key] = @ \o next_batch]
        ELSE /\ processing_flags' = [processing_flags EXCEPT ![t.key] = FALSE]
             /\ threads' = [threads EXCEPT ![i] = Finished(t)]
             /\ UNCHANGED <<frame_buffers, dispatched>>

\* The lock section of lines 347-369 and of lines 414-440: reset the flag,
\* and start the next batch when the buffer holds enough frames.
NextBatchSection(i) ==
    LET t == threads[i]
        buf == frame_buffers[t.key]
        next_batch == Take(buf, BATCH_SIZE)
    IN  IF Len(buf) >= BATCH_SIZE
        THEN /\ processing_flags' = [processing_flags EXCEPT ![t.key] = TRUE]
             /\ frame_buffers' = [frame_buffers EXCEPT ![t.key] = Drop(buf, BATCH_SIZE)]
             /\ threads' = Append([threads EXCEPT ![i] = Finished(t)],
                                  NewThread(next_batch, t.key))
             /\ dispatched' = [dispatched EXCEPT ![t.key] = @ \o next_batch]
        ELSE /\ processing_flags' = [processing_flags EXCEPT ![t.key] = FALSE]
             /\ threads' = [threads EXCEPT ![i] = Finished(t)]
             /\ UNCHANGED <<frame_buffers, dispatched>>

\* Lines 344-370: the update is not sent.
CompleteSuppressed(i) ==
    /\ threads[i].pc = "l347"
    /\ NextBatchSection(i)
    /\ UNCHANGED previous_states
    /\ ThreadSectionVarsUnchanged(i)

\* Lines 413-440: the response was sent.
CompleteSent(i) ==
    /\ threads[i].pc = "l414"
    /\ NextBatchSection(i)
    /\ UNCHANGED previous_states
    /\ ThreadSectionVarsUnchanged(i)

\* The lock section of lines 324-325 and of lines 445-446: only reset the flag.
ResetFlagSection(i) ==
    /\ processing_flags' = [processing_flags EXCEPT ![threads[i].key] = FALSE]
    /\ threads' = [threads EXCEPT ![i] = Finished(threads[i])]
    /\ UNCHANGED <<frame_buffers, previous_states, dispatched>>

\* Lines 321-326: no frame of the batch has data.
CompleteNoValidFrames(i) ==
    /\ threads[i].pc = "l324"
    /\ ResetFlagSection(i)
    /\ ThreadSectionVarsUnchanged(i)

\* Lines 442-446: the except clause.
CompleteError(i) ==
    /\ threads[i].pc = "l445"
    /\ ResetFlagSection(i)
    /\ ThreadSectionVarsUnchanged(i)

Next ==
    \/ Connect
    \/ \E g \in GameIds, p \in PlayerIds, sent \in BOOLEAN : OnGameStarted(g, p, sent)
    \/ \E g \in GameIds, p \in PlayerIds : OnGameEnded(g, p)
    \/ \E g \in GameIds, p \in PlayerIds, e \in FrameEvents :
          OnFrameNew(g, p, e.n, e.data)
    \/ DisconnectBegin
    \/ DisconnectClear
    \/ GetBufferStatusBegin
    \/ GetBufferStatusRead
    \/ \E i \in 1..Len(threads), result \in AnalysisResults : AnalyzeReturn(i, result)
    \/ \E i \in 1..Len(threads) : AnalyzeRaise(i)
    \/ \E i \in 1..Len(threads) : GateBaseline(i)
    \/ \E i \in 1..Len(threads) : GateRead245(i)
    \/ \E i \in 1..Len(threads) : GateRead253(i)
    \/ \E i \in 1..Len(threads) : GateRead261(i)
    \/ \E i \in 1..Len(threads) : GateRead265(i)
    \/ \E i \in 1..Len(threads) : GateWriteStatus(i)
    \/ \E i \in 1..Len(threads) : GateWriteObservation(i)
    \/ \E i \in 1..Len(threads) : GateWriteAnalysisResult(i)
    \/ \E i \in 1..Len(threads), audio \in TtsResults : Respond(i, audio)
    \/ \E i \in 1..Len(threads), audio \in TtsResults : RespondRaise(i, audio)
    \/ \E i \in 1..Len(threads) : CompleteSuppressed(i)
    \/ \E i \in 1..Len(threads) : CompleteSent(i)
    \/ \E i \in 1..Len(threads) : CompleteNoValidFrames(i)
    \/ \E i \in 1..Len(threads) : CompleteError(i)

Spec == Init /\ [][Next]_vars


\* ---------------------------------------------- the change gate on its own
\* One batch at the vision call, the key's state dict any dict the program
\* can hold: the initial one, one written by a first message, or a reset
\* dict that a thread past its reads has written into.
GateStates ==
    [status : {None} \cup Statuses, observation : {NoneMsg}, analysis_result : {NoneMsg},
     first_message_sent : {FALSE}]
    \cup {[status |-> s, observation |-> m, analysis_result |-> m, first_message_sent |-> b] :
            s \in {None} \cup Statuses, m \in GateMessages, b \in {FALSE}}
    \cup {[status |-> s, observation |-> m, analysis_result |-> m, first_message_sent |-> b] :
            s \in Statuses, m \in GateMessages, b \in {TRUE}}

GateBatch == [i \in 1..BATCH_SIZE |-> [id |-> i, data |-> "bytes"]]

GateInit ==
    /\ ai_active = TRUE
    /\ frame_buffers = [k \in Keys |-> <<>>]
    /\ processing_flags = [k \in Keys |-> TRUE]
    /\ previous_states \in [Keys -> GateStates]
    /\ \E k \in Keys :
          /\ known = <<k>>
          /\ threads = <<NewThread(GateBatch, k)>>
          /\ appended = [x \in Keys |-> IF x = k THEN GateBatch ELSE <<>>]
          /\ dispatched = [x \in Keys |-> IF x = k THEN GateBatch ELSE <<>>]
    /\ disc_todo = <<>>
    /\ status_todo = <<>>
    /\ next_id = BATCH_SIZE
    /\ lifecycle = 0
    /\ handled = NoEvent
    /\ outbox = <<>>
    /\ spoken = <<>>
    /\ request = NoCall
    /\ response = NoCall
    /\ commands = Commands
    /\ buffer_locks = {}
    /\ raised = NoError

GateNext ==
    \/ \E i \in 1..Len(threads), result \in GateResults : AnalyzeReturn(i, result)
    \/ \E i \in 1..Len(threads) : GateBaseline(i)
    \/ \E i \in 1..Len(threads) : GateRead245(i)
    \/ \E i \in 1..Len(threads) : GateRead253(i)
    \/ \E i \in 1..Len(threads) : GateRead261(i)
    \/ \E i \in 1..Len(threads) : GateRead265(i)
    \/ \E i \in 1..Len(threads) : GateWriteStatus(i)
    \/ \E i \in 1..Len(threads) : GateWriteObservation(i)
    \/ \E i \in 1..Len(threads) : GateWriteAnalysisResult(i)

GateSpec == GateInit /\ [][GateNext]_vars

\* ------------------------------------------------- session restart in isolation
\* The state right after a game:ended and then a game:started for a key, while
\* a batch dispatched before the session ended is still being analysed: the
\* reset has emptied the buffer, cleared the flag and replaced the state, and
\* the handler has emitted (or failed to emit) its acknowledgment.
RestartInit ==
    /\ ai_active = TRUE
    /\ frame_buffers = [k \in Keys |-> <<>>]
    /\ processing_flags = [k \in Keys |-> FALSE]
    /\ previous_states = [k \in Keys |-> InitialState]
    /\ \E g \in GameIds, p \in PlayerIds, sent \in BOOLEAN :
          /\ known = <<PlayerKey(g, p)>>
          /\ threads = <<NewThread(GateBatch, PlayerKey(g, p))>>
          /\ handled = [name |-> "game:started", gameId |-> g, playerId |-> p]
          /\ outbox = IF sent
                      THEN <<[event |-> "start-game", gameId |-> g, playerId |-> p]>>
                      ELSE <<>>
          /\ request = NoCall
          /\ response = NoCall
          /\ commands = Commands
          /\ buffer_locks = {}
          /\ raised = IF sent THEN NoError
                      ELSE [handler |-> "on_game_started", error |-> "emit"]
    /\ spoken = <<>>
    /\ disc_todo = <<>>
    /\ status_todo = <<>>
    /\ next_id = BATCH_SIZE
    /\ lifecycle = MaxLifecycle
    /\ appended = [k \in Keys |-> <<>>]
    /\ dispatched = [k \in Keys |-> <<>>]

\* The new session's frames and the batch threads; no further lifecycle event.
RestartNext ==
    \/ \E g \in GameIds, p \in PlayerIds, e \in FrameEvents :
          OnFrameNew(g, p, e.n, e.data)
    \/ \E i \in 1..Len(threads), result \in AnalysisResults : AnalyzeReturn(i, result)
    \/ \E i \in 1..Len(threads) : AnalyzeRaise(i)
    \/ \E i \in 1..Len(threads) : GateBaseline(i)
    \/ \E i \in 1..Len(threads) : GateRead245(i)
    \/ \E i \in 1..Len(threads) : GateRead253(i)
    \/ \E i \in 1..Len(threads) : GateRead261(i)
    \/ \E i \in 1..Len(threads) : GateRead265(i)
    \/ \E i \in 1..Len(threads) : GateWriteStatus(i)
    \/ \E i \in 1..Len(threads) : GateWriteObservation(i)
    \/ \E i \in 1..Len(threads) : GateWriteAnalysisResult(i)
    \/ \E i \in 1..Len(threads), audio \in TtsResults : Respond(i, audio)
    \/ \E i \in 1..Len(threads), audio \in TtsResults : RespondRaise(i, audio)
    \/ \E i \in 1..Len(threads) : CompleteSuppressed(i)
    \/ \E i \in 1..Len(threads) : CompleteSent(i)
    \/ \E i \in 1..Len(threads) : CompleteNoValidFrames(i)
    \/ \E i \in 1..Len(threads) : CompleteError(i)

RestartSpec == RestartInit /\ [][RestartNext]_vars

\* ------------------------------------- a batch from before a reset, still running
\* The frames of the batch dispatched before the reset, and of the batch
\* dispatched after it: they were appended before the frames counted by next_id.
OldBatch == [i \in 1..BATCH_SIZE |-> [id |-> i - 2 * BATCH_SIZE, data |-> "bytes"]]
FreshBatch == [i \in 1..BATCH_SIZE |-> [id |-> i - BATCH_SIZE, data |-> "bytes"]]

\* A key was reset by a game:started while a batch of it was at the vision
\* call, and four frames that arrived afterwards were dispatched at once, the
\* flag being clear: both batches are being analysed, the buffer is empty.
RedispatchInit ==
    /\ ai_active = TRUE
    /\ frame_buffers = [k \in Keys |-> <<>>]
    /\ processing_flags = [k \in Keys |-> TRUE]
    /\ previous_states = [k \in Keys |-> InitialState]
    /\ \E g \in GameIds, p \in PlayerIds :
          /\ known = <<PlayerKey(g, p)>>
          /\ threads = <<NewThread(OldBatch, PlayerKey(g, p)),
                         NewThread(FreshBatch, PlayerKey(g, p))>>
    /\ handled = NoEvent
    /\ outbox = <<>>
    /\ spoken = <<>>
    /\ request = NoCall
    /\ response = NoCall
    /\ commands = Commands
    /\ buffer_locks = {}
    /\ raised = NoError
    /\ disc_todo = <<>>
    /\ status_todo = <<>>
    /\ next_id = MaxFrames - BATCH_SIZE
    /\ lifecycle = MaxLifecycle
    /\ appended = [k \in Keys |-> FreshBatch]
    /\ dispatched = [k \in Keys |-> FreshBatch]

\* One more batch of frames and the batch threads; no further lifecycle event.
RedispatchSpec == RedispatchInit /\ [][RestartNext]_vars

\* ------------------------------------------------------- two players at once
\* f"{game_id}:{player_id}" keys of two games with the same player id.
PairGameIds == {<<"g">>, <<"h">>}
PairKeys == {PlayerKey(g, p) : g \in PairGameIds, p \in PlayerIds}

\* The states a key has once its baseline was sent.
BaselineStates ==
    {[status |-> r.status, observation |-> r.message, analysis_result |-> r.message,
      first_message_sent |-> TRUE] : r \in AnalysisResults}

\* A connected service that has analysed one full batch of one key, sent its
\* baseline and gone idle; the other key has not been seen yet.
PairInit ==
    /\ ai_active = TRUE
    /\ frame_buffers = [k \in PairKeys |-> <<>>]
    /\ processing_flags = [k \in PairKeys |-> FALSE]
    /\ \E k \in PairKeys, state \in BaselineStates :
          /\ previous_states = [x \in PairKeys |-> IF x = k THEN state ELSE InitialState]
          /\ known = <<k>>
          /\ threads = <<Finished(NewThread(GateBatch, k))>>
          /\ appended = [x \in PairKeys |-> IF x = k THEN GateBatch ELSE <<>>]
          /\ dispatched = [x \in PairKeys |-> IF x = k THEN GateBatch ELSE <<>>]
    /\ disc_todo = <<>>
    /\ status_todo = <<>>
    /\ next_id = BATCH_SIZE
    /\ lifecycle = 0
    /\ handled = NoEvent
    /\ outbox = <<>>
    /\ spoken = <<>>
    /\ request = NoCall
    /\ response = NoCall
    /\ commands = Commands
    /\ buffer_locks = {}
    /\ raised = NoError

PairNext ==
    \/ Connect
    \/ \E g \in PairGameIds, p \in PlayerIds, sent \in BOOLEAN : OnGameStarted(g, p, sent)
    \/ \E g \in PairGameIds, p \in PlayerIds : OnGameEnded(g, p)
    \/ \E g \in PairGameIds, p \in PlayerIds, e \in FrameEvents :
          OnFrameNew(g, p, e.n, e.data)
    \/ DisconnectBegin
    \/ DisconnectClear
    \/ \E i \in 1..Len(threads), result \in AnalysisResults : AnalyzeReturn(i, result)
    \/ \E i \in 1..Len(threads) : AnalyzeRaise(i)
    \/ \E i \in 1..Len(threads) : GateBaseline(i)
    \/ \E i \in 1..Len(threads) : GateRead245(i)
    \/ \E i \in 1..Len(threads) : GateRead253(i)
    \/ \E i \in 1..Len(threads) : GateRead261(i)
    \/ \E i \in 1..Len(threads) : GateRead265(i)
    \/ \E i \in 1..Len(threads) : GateWriteStatus(i)
    \/ \E i \in 1..Len(threads) : GateWriteObservation(i)
    \/ \E i \in 1..Len(threads) : GateWriteAnalysisResult(i)
    \/ \E i \in 1..Len(threads), audio \in TtsResults : Respond(i, audio)
    \/ \E i \in 1..Len(threads), audio \in TtsResults : RespondRaise(i, audio)
    \/ \E i \in 1..Len(threads) : CompleteSuppressed(i)
    \/ \E i \in 1..Len(threads) : CompleteSent(i)
    \/ \E i \in 1..Len(threads) : CompleteNoValidFrames(i)
    \/ \E i \in 1..Len(threads) : CompleteError(i)

PairSpec == PairInit /\ [][PairNext]_vars

\* ---------------------------------------------------- events without their ids
\* data.get("gameId") and data.get("playerId") of an event that may lack them.
LooseGameIds == GameIds \cup {NoneMsg}
LoosePlayerIds == PlayerIds \cup {NoneMsg}
LooseKeys == {PlayerKey(g, p) : g \in LooseGameIds, p \in LoosePlayerIds}

\* The constructed service; the defaultdicts can get an entry for any key an
\* f-string of the two values makes.
LooseInit ==
    /\ ai_active = FALSE
    /\ frame_buffers = [k \in LooseKeys |-> <<>>]
    /\ processing_flags = [k \in LooseKeys |-> FALSE]
    /\ previous_states = [k \in LooseKeys |-> InitialState]
    /\ known = <<>>
    /\ threads = <<>>
    /\ disc_todo = <<>>
    /\ status_todo = <<>>
    /\ next_id = 0
    /\ lifecycle = 0
    /\ handled = NoEvent
    /\ outbox = <<>>
    /\ spoken = <<>>
    /\ request = NoCall
    /\ response = NoCall
    /\ commands = Commands
    /\ buffer_locks = {}
    /\ raised = NoError
    /\ appended = [k \in LooseKeys |-> <<>>]
    /\ dispatched = [k \in LooseKeys |-> <<>>]

\* The socket events alone, with payloads and thread starts that go wrong.
LooseNext ==
    \/ Connect
    \/ \E g \in LooseGameIds, p \in LoosePlayerIds, sent \in BOOLEAN :
          OnGameStarted(g, p, sent)
    \/ \E g \in LooseGameIds, p \in LoosePlayerIds : OnGameEnded(g, p)
    \/ \E g \in LooseGameIds, p \in LoosePlayerIds, e \in FrameEvents :
          OnFrameNew(g, p, e.n, e.data)
    \/ \E g \in LooseGameIds, p \in LoosePlayerIds, e \in FrameEvents :
          OnFrameNewMalformed(g, p, e.n, e.data)
    \/ \E g \in LooseGameIds, p \in LoosePlayerIds, e \in FrameEvents :
          OnFrameNewStartFails(g, p, e.n, e.data)
    \/ DisconnectBegin
    \/ DisconnectClear

LooseSpec == LooseInit /\ [][LooseNext]_vars

\* ------------------------------------------- ids that hold the separator
\* Game and player ids are any strings the client sends; some of these pairs
\* of ids hold a ":".
ColonPairs ==
    {<<<<"a">>, <<"b", ":", "c">>>>, <<<<"a", ":", "b">>, <<"c">>>>, <<<<"a">>, <<"c">>>>}
ColonKeys == {PlayerKey(pair[1], pair[2]) : pair \in ColonPairs}

\* The constructed service, for the keys these ids make.
ColonInit ==
    /\ ai_active = FALSE
    /\ frame_buffers = [k \in ColonKeys |-> <<>>]
    /\ processing_flags = [k \in ColonKeys |-> FALSE]
    /\ previous_states = [k \in ColonKeys |-> InitialState]
    /\ known = <<>>
    /\ threads = <<>>
    /\ disc_todo = <<>>
    /\ status_todo = <<>>
    /\ next_id = 0
    /\ lifecycle = 0
    /\ handled = NoEvent
    /\ outbox = <<>>
    /\ spoken = <<>>
    /\ request = NoCall
    /\ response = NoCall
    /\ commands = Commands
    /\ buffer_locks = {}
    /\ raised = NoError
    /\ appended = [k \in ColonKeys |-> <<>>]
    /\ dispatched = [k \in ColonKeys |-> <<>>]

\* The game and frame events of these sessions.
ColonNext ==
    \/ \E pair \in ColonPairs, sent \in BOOLEAN : OnGameStarted(pair[1], pair[2], sent)
    \/ \E pair \in ColonPairs : OnGameEnded(pair[1], pair[2])
    \/ \E pair \in ColonPairs, e \in FrameEvents : OnFrameNew(pair[1], pair[2], e.n, e.data)

ColonSpec == ColonInit /\ [][ColonNext]_vars

\* ------------------------------------------------- the key locks step by step
\* The threads that enter lock sections: the handlers of the socket events,
\* the caller of get_buffer_status and the batch threads (by their index).
LifecycleHandlers == {Handler("on_game_started"), Handler("on_game_ended")}

\* The owner holds the key's lock.
Holds(owner, key) == [key |-> key, owner |-> owner] \in buffer_locks

\* The with statement a thread has reached: threading.Lock.acquire() returns
\* once no thread holds the lock. Lock sections are not nested in the code,
\* so a thread reaches a with statement holding no lock.
Acquire(owner, key) ==
    /\ ~Locked(key)
    /\ \A l \in buffer_locks : l.owner # owner
    /\ buffer_locks' = buffer_locks \cup {[key |-> key, owner |-> owner]}
    /\ Silent
    /\ UNCHANGED <<ai_active, frame_buffers, processing_flags, previous_states, known,
                   threads, disc_todo, status_todo, next_id, lifecycle, appended,
                   dispatched>>

\* The lifecycle events counted against MaxLifecycle include the ones whose
\* handler has taken its lock.
LifecycleEventLeft ==
    lifecycle + Cardinality({l \in buffer_locks : l.owner \in LifecycleHandlers})
       < MaxLifecycle

\* on_game_started / on_game_ended at their with statement (lines 79 and 181).
LifecycleAcquire(handler, game_id, player_id) ==
    /\ LifecycleEventLeft
    /\ Acquire(handler, PlayerKey(game_id, player_id))

\* on_frame_new at its with statement (line 115).
FrameNewAcquire(game_id, player_id) ==
    Acquire(Handler("on_frame_new"), PlayerKey(game_id, player_id))

\* disconnect at the with statement of its loop (line 201).
DisconnectAcquire ==
    /\ disc_todo # <<>>
    /\ Acquire(Handler("disconnect"), Head(disc_todo))

\* get_buffer_status at the with statement of its loop (line 487).
GetBufferStatusAcquire ==
    /\ status_todo # <<>>
    /\ Acquire(Handler("get_buffer_status"), Head(status_todo))

\* A batch thread at one of the with statements of _process_batch_sync
\* (lines 324, 347, 414 and 445).
ThreadAcquire(i) ==
    /\ threads[i].pc \in {"l324", "l347", "l414", "l445"}
    /\ Acquire(BatchThread(i), threads[i].key)

\* The lock section an owner runs once it holds the lock of a key.
Section(owner, key) ==
    \/ \E g \in PairGameIds, p \in PlayerIds, sent \in BOOLEAN :
          /\ owner = Handler("on_game_started") /\ key = PlayerKey(g, p)
          /\ OnGameStarted(g, p, sent)
    \/ \E g \in PairGameIds, p \in PlayerIds :
          /\ owner = Handler("on_game_ended") /\ key = PlayerKey(g, p)
          /\ OnGameEnded(g, p)
    \/ \E g \in PairGameIds, p \in PlayerIds, e \in FrameEvents :
          /\ owner = Handler("on_frame_new") /\ key = PlayerKey(g, p)
          /\ OnFrameNew(g, p, e.n, e.data)
    \/ \E g \in PairGameIds, p \in PlayerIds, e \in FrameEvents :
          /\ owner = Handler("on_frame_new") /\ key = PlayerKey(g, p)
          /\ OnFrameNewMalformed(g, p, e.n, e.data)
    \/ /\ owner = Handler("disconnect") /\ disc_todo # <<>> /\ key = Head(disc_todo)
       /\ DisconnectClear
    \/ /\ owner = Handler("get_buffer_status") /\ status_todo # <<>> /\ key = Head(status_todo)
       /\ GetBufferStatusRead
    \/ \E i \in 1..Len(threads) :
          /\ owner = BatchThread(i) /\ key = threads[i].key
          /\ \/ CompleteSuppressed(i)
             \/ CompleteSent(i)
             \/ CompleteNoValidFrames(i)
             \/ CompleteError(i)

\* The batch threads about to enter a lock section, with the state of their
\* key: a batch of empty files (line 324), a batch whose analysis raised
\* (line 445), and a batch the change gate has decided on (lines 347 and 414).
AtSections ==
    {[thread |-> NewThread([i \in 1..BATCH_SIZE |-> [id |-> i, data |-> "empty"]],
                           PlayerKey(<<"g">>, <<"p">>)),
      state |-> InitialState],
     [thread |-> Leaving(NewThread(GateBatch, PlayerKey(<<"g">>, <<"p">>)), "l445"),
      state |-> InitialState]}
    \cup {[thread |-> Leaving(NewThread(GateBatch, PlayerKey(<<"g">>, <<"p">>)), pc),
           state |-> [status |-> "ok", observation |-> <<"A", "b">>,
                      analysis_result |-> <<"A", "b">>, first_message_sent |-> TRUE]] :
             pc \in {"l347", "l414"}}

\* A connected service with two known keys: a batch of one key is about to
\* enter its completion section, and the frames and the lifecycle event of
\* the run's end are still to come.
LockInit ==
    /\ ai_active = TRUE
    /\ frame_buffers = [k \in PairKeys |-> <<>>]
    /\ processing_flags = [k \in PairKeys |-> k = PlayerKey(<<"g">>, <<"p">>)]
    /\ known = <<PlayerKey(<<"g">>, <<"p">>), PlayerKey(<<"h">>, <<"p">>)>>
    /\ \E at \in AtSections :
          /\ threads = <<at.thread>>
          /\ previous_states = [k \in PairKeys |->
                IF k = at.thread.key THEN at.state ELSE InitialState]
          /\ appended = [k \in PairKeys |-> IF k = at.thread.key THEN at.thread.batch ELSE <<>>]
          /\ dispatched = [k \in PairKeys |-> IF k = at.thread.key THEN at.thread.batch ELSE <<>>]
    /\ disc_todo = <<>>
    /\ status_todo = <<>>
    /\ next_id = MaxFrames - BATCH_SIZE
    /\ lifecycle = MaxLifecycle - 1
    /\ handled = NoEvent
    /\ outbox = <<>>
    /\ spoken = <<>>
    /\ request = NoCall
    /\ response = NoCall
    /\ commands = Commands
    /\ buffer_locks = {}
    /\ raised = NoError

\* Every lock section in two steps: the acquisition, then the section; the
\* batches dispatched on the way stay at their vision call.
LockNext ==
    \/ \E h \in LifecycleHandlers, g \in PairGameIds, p \in PlayerIds :
          LifecycleAcquire(h, g, p)
    \/ \E g \in PairGameIds, p \in PlayerIds : FrameNewAcquire(g, p)
    \/ DisconnectAcquire
    \/ GetBufferStatusAcquire
    \/ \E i \in 1..Len(threads) : ThreadAcquire(i)
    \/ \E l \in buffer_locks : Section(l.owner, l.key)
    \/ LifecycleEventLeft /\ DisconnectBegin
    \/ GetBufferStatusBegin

LockSpec == LockInit /\ [][LockNext]_vars

\* ------------------------------------------------------------ vocabulary
ThreadsOf(k) == {i \in 1..Len(threads) : threads[i].key = k}

Executing(k) == {i \in ThreadsOf(k) : Running(i)}

\* _should_send_update has returned and nothing after it has run yet.
GateReturned(t) == t.pc \in {"l377", "l347"}

\* The thread has entered _should_send_update.
GateEntered(t) ==
    t.pc \in {"l228", "l245", "l253", "l261", "l265", "w_status", "w_observation",
              "w_analysis_result", "l377", "l347", "l414"}

Adopted(t) ==
    /\ previous_states[t.key].status = t.analysis.status
    /\ previous_states[t.key].observation = t.analysis.message
    /\ previous_states[t.key].analysis_result = t.analysis.message


\* A batch thread for key k starts in this step.
Dispatches(k) ==
    /\ Len(threads') = Len(threads) + 1
    /\ threads'[Len(threads')].key = k

\* A batch thread of key k returns in this step.
Completes(k) == \E i \in Executing(k) : threads'[i].pc = "done"

\* ------------------------------------------------------------------ claims

\* C1: for every key, at most one batch is executing at any instant - a
\* second batch is never dispatched for a key while an earlier batch for
\* that key has not finished.
AtMostOneBatchExecuting == \A k \in Keys : Cardinality(Executing(k)) <= 1

\* C2: every dispatched batch has exactly BATCH_SIZE frame records in arrival
\* order, and for a key the concatenation of the batches dispatched since its
\* last lifecycle clear is a prefix of the frames appended since that clear
\* (the rest being the buffer).
BatchesAreFifoPrefix ==
    /\ \A i \in 1..Len(threads) :
          Running(i) =>
             /\ Len(threads[i].batch) = BATCH_SIZE
             /\ \A a, b \in 1..BATCH_SIZE :
                   a < b => threads[i].batch[a].id < threads[i].batch[b].id
    /\ \A k \in Keys :
          /\ IsPrefix(dispatched[k], appended[k])
          /\ appended[k] = dispatched[k] \o frame_buffers[k]
          /\ Len(dispatched[k]) % BATCH_SIZE = 0
          /\ \A i \in ThreadsOf(k) :
                (Running(i) /\ \A j \in ThreadsOf(k) : j <= i)
                   => \/ dispatched[k] = <<>>
                      \/ threads[i].batch =
                            SubSeq(dispatched[k], Len(dispatched[k]) - BATCH_SIZE + 1,
                                   Len(dispatched[k]))

TwoBatchesDispatchedWithoutClear ==
    \E k \in Keys :
       /\ Len(dispatched[k]) = 2 * BATCH_SIZE
       /\ \E i \in ThreadsOf(k) : Running(i)

\* C3: with no lifecycle event so far, the frame:new event that brings an
\* idle key's buffer to BATCH_SIZE starts exactly one batch, frames appended
\* while a batch of the key is executing start none, and a batch that
\* completes starts the next one in the same step if and only if at least
\* BATCH_SIZE frames have accumulated.
BatchSizeBoundary ==
    [][lifecycle' = 0 =>
        \A k \in Keys :
           LET arrived == Len(frame_buffers'[k]) + Len(dispatched'[k])
                    - Len(frame_buffers[k]) - Len(dispatched[k])
           IN  /\ ( /\ arrived > 0
                    /\ Executing(k) = {}
                    /\ ~processing_flags[k]
                    /\ Len(frame_buffers[k]) < BATCH_SIZE
                    /\ Len(frame_buffers[k]) + arrived >= BATCH_SIZE )
                  => Dispatches(k)
               /\ (arrived > 0 /\ Executing(k) # {}) => ~Dispatches(k)
               /\ Completes(k) => (Dispatches(k) <=> Len(frame_buffers[k]) >= BATCH_SIZE)
    ]_vars

\* C4: on every kind of batch completion the key's buffer is re-checked: with
\* BATCH_SIZE or more frames the next batch is drained and started and the
\* flag stays true, otherwise the flag becomes false.
CompletionRechecksBuffer ==
    [][\A i \in 1..Len(threads) :
          (Running(i) /\ threads'[i].pc = "done") =>
             LET k == threads[i].key
                 buf == frame_buffers[k]
             IN  IF Len(buf) >= BATCH_SIZE
                 THEN /\ processing_flags'[k]
                      /\ Dispatches(k)
                      /\ threads'[Len(threads')].batch = Take(buf, BATCH_SIZE)
                      /\ frame_buffers'[k] = Drop(buf, BATCH_SIZE)
                 ELSE /\ ~processing_flags'[k]
                      /\ Len(threads') = Len(threads)
                      /\ frame_buffers'[k] = buf
    ]_vars

\* C5: a key is never left idle (flag false, no batch executing) with
\* BATCH_SIZE or more frames buffered.
NeverIdleWithFullBuffer ==
    \A k \in Keys :
       (~processing_flags[k] /\ Executing(k) = {}) => Len(frame_buffers[k]) < BATCH_SIZE

\* C6: in every step a key's buffer either keeps its frames in order (with
\* new frames added at the tail), or loses a head that is exactly the batch
\* of the thread started in that step, or is emptied by a lifecycle event.
FramesLeaveOnlyByDrainOrClear ==
    [][\A k \in Keys :
          \/ IsPrefix(frame_buffers[k], frame_buffers'[k])
          \/ /\ Dispatches(k)
             /\ IsPrefix(frame_buffers[k], threads'[Len(threads')].batch \o frame_buffers'[k])
          \/ /\ frame_buffers'[k] = <<>>
             /\ \/ lifecycle' = lifecycle + 1
                \/ disc_todo # <<>> /\ Head(disc_todo) = k /\ disc_todo' = Tail(disc_todo)
    ]_vars

FramesKeptAfterCompletion ==
    \E k \in Keys :
       /\ Len(frame_buffers[k]) > 0
       /\ ~processing_flags[k]
       /\ \E i \in ThreadsOf(k) : threads[i].pc = "done"
       /\ status_todo # <<>>

\* C7: per key, a batch dispatched later never enters the change gate while
\* a batch dispatched earlier for the key is still at its vision call.
BatchesGatedInDispatchOrder ==
    \A k \in Keys : \A i, j \in ThreadsOf(k) :
       (i < j /\ GateEntered(threads[j])) => threads[i].pc # "analyze"

\* C8: a result evaluated against a state dict with first_message_sent false
\* is sent, and the key's state then has first_message_sent true and the
\* result's status and message.
ChangeGateBaselineRule ==
    \A i \in 1..Len(threads) :
       LET t == threads[i]
       IN  (GateReturned(t) /\ ~t.entry.first_message_sent) =>
              /\ t.send
              /\ t.pc = "l377"
              /\ Adopted(t)
              /\ previous_states[t.key].first_message_sent

BaselineSent ==
    \E i \in 1..Len(threads) :
       LET t == threads[i]
       IN  /\ t.pc = "l377"
           /\ t.entry = InitialState
           /\ t.analysis.status = "ok"
           /\ t.analysis.message = <<>>

\* C9: a result with status danger is sent whatever the prior state and the
\* last message, and the key's state then has the result's status and message.
ChangeGateDangerAlwaysSent ==
    \A i \in 1..Len(threads) :
       LET t == threads[i]
       IN  (GateReturned(t) /\ t.analysis.status = "danger") =>
              /\ t.send
              /\ t.pc = "l377"
              /\ Adopted(t)

RepeatedDangerSent ==
    \E i \in 1..Len(threads) :
       LET t == threads[i]
       IN  /\ t.pc = "l377"
           /\ t.entry.first_message_sent
           /\ t.entry.status = "danger"
           /\ t.analysis.status = "danger"
           /\ t.entry.analysis_result = t.analysis.message

\* C10: after the baseline, a result with status ok evaluated when the last
\* status is needs_adjustment is sent whatever the messages, and the key's
\* state then has status ok and the result's message.
ChangeGateRecoverySent ==
    \A i \in 1..Len(threads) :
       LET t == threads[i]
       IN  ( /\ GateReturned(t)
             /\ t.entry.first_message_sent
             /\ t.entry.status = "needs_adjustment"
             /\ t.analysis.status = "ok" ) =>
              /\ t.send
              /\ t.pc = "l377"
              /\ Adopted(t)

RecoveryWithSameMessageSent ==
    \E i \in 1..Len(threads) :
       LET t == threads[i]
       IN  /\ t.pc = "l377"
           /\ t.entry.first_message_sent
           /\ t.entry.status = "needs_adjustment"
           /\ t.analysis.status = "ok"
           /\ t.entry.analysis_result = t.analysis.message


\* C11: after the baseline, a result with status needs_adjustment evaluated
\* when the last status is not needs_adjustment is sent whatever the
\* messages, and the key's state then has the result's status and message.
ChangeGateWorseningSent ==
    \A i \in 1..Len(threads) :
       LET t == threads[i]
       IN  ( /\ GateReturned(t)
             /\ t.entry.first_message_sent
             /\ t.entry.status # "needs_adjustment"
             /\ t.analysis.status = "needs_adjustment" ) =>
              /\ t.send
              /\ t.pc = "l377"
              /\ Adopted(t)

WorseningFromDangerWithSameMessageSent ==
    \E i \in 1..Len(threads) :
       LET t == threads[i]
       IN  /\ t.pc = "l377"
           /\ t.entry.first_message_sent
           /\ t.entry.status = "danger"
           /\ t.analysis.status = "needs_adjustment"
           /\ t.entry.analysis_result = t.analysis.message

\* None of the rules 1-4 of the change gate applies to the thread's result.
SimilarityRuleApplies(t) ==
    /\ t.entry.first_message_sent
    /\ t.analysis.status # "danger"
    /\ ~(t.analysis.status = "needs_adjustment" /\ t.entry.status # "needs_adjustment")
    /\ ~(t.analysis.status = "ok" /\ t.entry.status = "needs_adjustment")

\* C12: when rules 1-4 do not apply the result is sent exactly when the
\* case-insensitive similarity of the last message (empty or not) and the
\* result's message is below 0.7, and the state then has the result's status
\* and message; otherwise it is suppressed and the state is unchanged.
ChangeGateSimilarityRule ==
    \A i \in 1..Len(threads) :
       LET t == threads[i]
       IN  (GateReturned(t) /\ SimilarityRuleApplies(t)) =>
              IF SimilarityBelowThreshold(t.entry.analysis_result, t.analysis.message)
              THEN t.send /\ t.pc = "l377" /\ Adopted(t)
              ELSE ~t.send /\ t.pc = "l347" /\ previous_states[t.key] = t.entry

\* C13: a result whose status differs from the key's last status, and the
\* first result of a session, is sent whatever the messages.
EveryStatusTransitionSent ==
    \A i \in 1..Len(threads) :
       LET t == threads[i]
       IN  ( /\ GateReturned(t)
             /\ \/ ~t.entry.first_message_sent
                \/ t.analysis.status # t.entry.status ) => t.send

\* The thread's batch was dispatched before the last reset of its key: it is
\* not among the batches dispatched since.
Stale(t) ==
    /\ t.batch # <<>>
    /\ ~Contains(dispatched[t.key], t.batch[1])

\* The first batch dispatched for key k since its last reset.
FirstBatch(k) ==
    IF Len(dispatched[k]) >= BATCH_SIZE THEN Take(dispatched[k], BATCH_SIZE) ELSE <<>>

\* C14: after a game:ended followed by a game:started for a key, the key's
\* state has first_message_sent false as long as no batch of the new session
\* is dispatched, and the result of the first batch of the new session is
\* sent, whatever batches dispatched before the session ended are doing.
FirstResultOfNewSessionSent ==
    \A k \in Keys :
       /\ dispatched[k] = <<>> => ~previous_states[k].first_message_sent
       /\ \A i \in ThreadsOf(k) :
              (GateReturned(threads[i]) /\ ~Stale(threads[i]) /\ threads[i].batch = FirstBatch(k)) =>
                 threads[i].send

\* The step handles a game:started event for game g and player p.
HandlesGameStarted(g, p) ==
    /\ lifecycle' = lifecycle + 1
    /\ handled' = [name |-> "game:started", gameId |-> g, playerId |-> p]

\* C15: a game:started event for a key, in one step, empties the key's buffer,
\* clears its processing flag and resets its previous state to the initial
\* one, and leaves the buffer, flag and state of every other key unchanged.
SessionStartResetsOnlyItsKey ==
    [][\A g \in PairGameIds, p \in PlayerIds :
          HandlesGameStarted(g, p) =>
             LET key == PlayerKey(g, p)
             IN  /\ frame_buffers'[key] = <<>>
                 /\ ~processing_flags'[key]
                 /\ previous_states'[key] = InitialState
                 /\ \A k \in DOMAIN frame_buffers \ {key} :
                        /\ frame_buffers'[k] = frame_buffers[k]
                        /\ processing_flags'[k] = processing_flags[k]
                        /\ previous_states'[k] = previous_states[k]]_vars

SessionStartedBesideBusyKey ==
    \E g \in PairGameIds, p \in PlayerIds :
       LET key == PlayerKey(g, p)
       IN  /\ handled = [name |-> "game:started", gameId |-> g, playerId |-> p]
           /\ \E i \in ThreadsOf(key) : Running(i) /\ Stale(threads[i])
           /\ \E k \in DOMAIN frame_buffers \ {key} :
                  previous_states[k].first_message_sent

\* C16: the disconnect handler resets every known key: when it is done with a
\* key, the key's buffer is empty, its processing flag is false and its
\* previous state is the initial one (first_message_sent false).
DisconnectResetsEveryKnownKey ==
    [][(disc_todo # <<>> /\ disc_todo' = Tail(disc_todo)) =>
          LET key == Head(disc_todo)
          IN  /\ frame_buffers'[key] = <<>>
              /\ ~processing_flags'[key]
              /\ previous_states'[key] = InitialState]_vars

\* C17: the result of a batch dispatched before a reset of its key is
\* discarded: no ai:response is emitted for a batch that is not among the
\* batches dispatched since the key's last reset.
StaleResultsDiscarded ==
    \A n \in 1..Len(outbox) :
       outbox[n].event = "ai:response" =>
          Contains(dispatched[outbox[n].key], outbox[n].batch[1])

\* C18: a late result never re-populates a reset state: while no batch has
\* been dispatched since the last reset of a key, the key's previous state is
\* the initial one, and no state has first_message_sent false together with a
\* status, observation or analysis_result other than None.
LateResultNeverRepopulates ==
    \A k \in Keys :
       /\ dispatched[k] = <<>> => previous_states[k] = InitialState
       /\ ~previous_states[k].first_message_sent =>
              /\ previous_states[k].status = None
              /\ previous_states[k].observation = NoneMsg
              /\ previous_states[k].analysis_result = NoneMsg

\* The step emits an ai:response for the batch of thread t.
EmitsResponseFor(t) ==
    /\ t.batch # <<>>
    /\ \E n \in 1..Len(outbox') :
          outbox'[n].event = "ai:response" /\ outbox'[n].batch = t.batch

\* The step calls the text-to-speech service for the batch of thread t.
SpeaksFor(t) ==
    /\ t.batch # <<>>
    /\ \E n \in 1..Len(spoken') : spoken'[n].batch = t.batch

\* The thread is past the point where it responds or returns early.
PastResponse(t) == t.pc \in {"l324", "l347", "l414", "l445", "done"}

\* C19 as stated: an ai:response is emitted only for a batch whose gate
\* decision was send and at most once per batch; a suppressed batch, a batch
\* without valid frames and a batch that raised an error emit none, and the
\* text-to-speech service is not called for them.
ResponseAndSpeechOnlyForSentBatches ==
    [][\A i \in 1..Len(threads) :
          LET t == threads[i]
          IN  /\ EmitsResponseFor(t) => (t.pc = "l377" /\ t.send)
              /\ PastResponse(t) => (PastResponse(threads'[i]) /\ ~EmitsResponseFor(t))
              /\ SpeaksFor(t) =>
                    (t.pc = "l377" /\ t.send /\ threads'[i].pc # "l445")]_vars

\* C19 amended: an ai:response is emitted only for a batch whose gate decision
\* was send and at most once per batch; a suppressed batch, a batch without
\* valid frames and a batch that raised an error emit none; the
\* text-to-speech service is called only for a batch whose decision was send,
\* at most once, and a batch whose emit raises has had it called.
ResponseOnlyForSentBatches ==
    [][\A i \in 1..Len(threads) :
          LET t == threads[i]
          IN  /\ EmitsResponseFor(t) => (t.pc = "l377" /\ t.send /\ SpeaksFor(t))
              /\ PastResponse(t) =>
                    (PastResponse(threads'[i]) /\ ~EmitsResponseFor(t) /\ ~SpeaksFor(t))
              /\ SpeaksFor(t) => (t.pc = "l377" /\ t.send)
              /\ (t.pc = "l377" /\ threads'[i].pc = "l445") =>
                    (SpeaksFor(t) /\ ~EmitsResponseFor(t))]_vars

ResponseEmittedForSentBatch ==
    \E i \in 1..Len(threads), n \in 1..Len(outbox) :
       /\ threads[i].pc = "l414"
       /\ outbox[n].event = "ai:response"
       /\ outbox[n].batch = threads[i].batch
       /\ Len(spoken) = 1
       /\ spoken[1].batch = threads[i].batch

\* The acknowledgment of a game:started event for game g and player p.
StartGameAck(g, p) == [event |-> "start-game", gameId |-> g, playerId |-> p]

\* The last step handled game:started for g and p and left the key reset.
StartedAndReset(g, p) ==
    /\ handled = [name |-> "game:started", gameId |-> g, playerId |-> p]
    /\ frame_buffers[PlayerKey(g, p)] = <<>>
    /\ ~processing_flags[PlayerKey(g, p)]
    /\ previous_states[PlayerKey(g, p)] = InitialState

\* A start-game acknowledgment is only emitted by a step that handled
\* game:started for the same ids and left the key reset.
AcksOnlyAfterReset ==
    \A n \in 1..Len(outbox) :
       outbox[n].event = "start-game" => StartedAndReset(outbox[n].gameId, outbox[n].playerId)

\* C20 as stated: every game:started event produces exactly one start-game
\* acknowledgment with the event's game and player ids, emitted only once the
\* key's buffer, flag and previous state have been reset.
ExactlyOneAckPerSessionStart ==
    /\ AcksOnlyAfterReset
    /\ \A g \in PairGameIds, p \in PlayerIds :
          handled = [name |-> "game:started", gameId |-> g, playerId |-> p] =>
             outbox = <<StartGameAck(g, p)>>

\* C20 amended: every game:started event produces at most one start-game
\* acknowledgment, none only when the emit raises; the acknowledgment has the
\* event's game and player ids and is emitted only once the key's buffer,
\* flag and previous state have been reset.
AtMostOneAckPerSessionStart ==
    /\ AcksOnlyAfterReset
    /\ \A g \in PairGameIds, p \in PlayerIds :
          handled = [name |-> "game:started", gameId |-> g, playerId |-> p] =>
             /\ StartedAndReset(g, p)
             /\ outbox \in {<<>>, <<StartGameAck(g, p)>>}

AckEmittedForRestartedBusyKey ==
    \E g \in PairGameIds, p \in PlayerIds :
       /\ StartedAndReset(g, p)
       /\ outbox = <<StartGameAck(g, p)>>
       /\ \E i \in ThreadsOf(PlayerKey(g, p)) : Running(i) /\ Stale(threads[i])

\* The thread's batch has no frame with data.
Unusable(t) ==
    /\ t.batch # <<>>
    /\ \A n \in 1..Len(t.batch) : t.batch[n].data = "empty"

\* C21: a batch in which no frame has data is not analysed: its thread never
\* calls the vision service, the change gate or the text-to-speech service,
\* leaves the previous states as they are, emits no ai:response, and its one
\* step sets the key's processing flag to false.
UnusableBatchSkipped ==
    [][\A i \in 1..Len(threads) :
          LET t == threads[i]
          IN  Unusable(t) =>
                 /\ t.pc = "l324"
                 /\ ~EmitsResponseFor(t)
                 /\ ~SpeaksFor(t)
                 /\ threads'[i] # t =>
                       /\ threads'[i].pc = "done"
                       /\ ~processing_flags'[t.key]
                       /\ previous_states' = previous_states
                       /\ outbox' = <<>>
                       /\ spoken' = <<>>]_vars

UnusableBatchDispatched ==
    \E i \in 1..Len(threads) :
       /\ Unusable(threads[i])
       /\ threads[i].pc = "l324"
       /\ processing_flags[threads[i].key]
       /\ previous_states[threads[i].key].first_message_sent

\* The step handled an event that lacks the game id or the player id.
HandlesEventWithoutIds ==
    /\ handled'.name # "None"
    /\ (handled'.gameId = NoneMsg \/ handled'.playerId = NoneMsg)

\* C22: a frame:new, game:started or game:ended event that lacks the game id
\* or the player id is discarded: no key is created, no buffer, processing
\* flag or previous state is modified and nothing is emitted.
EventsWithoutIdsDiscarded ==
    [][HandlesEventWithoutIds =>
          /\ known' = known
          /\ frame_buffers' = frame_buffers
          /\ processing_flags' = processing_flags
          /\ previous_states' = previous_states
          /\ outbox' = <<>>]_vars

\* The step calls the text-to-speech service for the batch of thread t and
\* gets no audio back.
SpeechFailsFor(t) ==
    /\ t.batch # <<>>
    /\ \E n \in 1..Len(spoken') : spoken'[n].batch = t.batch /\ spoken'[n].audio = None

\* C23: when the gate decided send and the text-to-speech service returns no
\* audio, the response can still be emitted, and when the emit goes through
\* it carries the result message and an empty-string audio field and the
\* thread goes on to the same completion section as after a successful render.
SilentResponseStillEmitted ==
    /\ [](\A i \in 1..Len(threads) :
            threads[i].pc = "l377" => ENABLED Respond(i, None))
    /\ [][\A i \in 1..Len(threads) :
            LET t == threads[i]
            IN  (SpeechFailsFor(t) /\ threads'[i].pc # "l445") =>
                   /\ t.send
                   /\ outbox' = <<[event |-> "ai:response", key |-> t.key,
                                   batch |-> t.batch, result |-> t.analysis.message,
                                   result_audio |-> ""]>>
                   /\ threads'[i] = Leaving(t, "l414")
                   /\ frame_buffers' = frame_buffers
                   /\ processing_flags' = processing_flags]_vars

SilentResponseEmitted ==
    \E i \in 1..Len(threads) :
       /\ threads[i].pc = "l414"
       /\ Len(spoken) = 1
       /\ spoken[1].batch = threads[i].batch
       /\ spoken[1].audio = None
       /\ Len(outbox) = 1
       /\ outbox[1].result_audio = ""
       /\ outbox[1].result \in Messages

\* C24: on_frame_new never lets an exception out to its caller, whatever the
\* event payload and even when the batch thread cannot be started.
FrameHandlerNeverRaises == raised.handler # "on_frame_new"

\* The keys whose buffer, processing flag or previous state the step changes.
ChangedKeys ==
    {k \in DOMAIN frame_buffers :
        \/ frame_buffers'[k] # frame_buffers[k]
        \/ processing_flags'[k] # processing_flags[k]
        \/ previous_states'[k] # previous_states[k]}

\* The keys the step acts for: the key of the lifecycle event it handles, the
\* key whose frames it appends, the key of the batch thread it runs or starts.
ActingKeys ==
    {k \in DOMAIN frame_buffers :
        \/ /\ lifecycle' # lifecycle
           /\ handled'.name \in {"game:started", "game:ended"}
           /\ k = PlayerKey(handled'.gameId, handled'.playerId)
        \/ Len(appended'[k]) > Len(appended[k])
        \/ \E i \in 1..Len(threads') :
              /\ threads'[i].key = k
              /\ (i > Len(threads) \/ threads'[i] # threads[i])}

\* C25: a frame:new, game:started or game:ended event and a step of batch
\* processing, failed or not, act for one key and leave the buffer, the
\* processing flag and the previous state of every other key unchanged; only
\* the disconnect handler goes through more than one key.
KeyIsolation ==
    [][disc_todo' = disc_todo =>
          /\ Cardinality(ActingKeys) <= 1
          /\ ChangedKeys \subseteq ActingKeys]_vars

BatchFailedBesideLiveKey ==
    \E i \in 1..Len(threads) :
       /\ threads[i].pc = "l445"
       /\ \E k \in DOMAIN frame_buffers \ {threads[i].key} :
              previous_states[k].first_message_sent

\* The vision call or the text-to-speech call of thread t is in progress.
InSlowCall(t) == t.pc \in {"analyze", "l377"}

\* C26: frame ingestion is never blocked by analysis: while the vision or
\* text-to-speech call of a batch of a key is in progress, a frame:new event
\* for that key can be handled at once, and handling it appends its frames to
\* the key's buffer and leaves the batch thread where it is.
IngestionNeverBlocked ==
    /\ [](\A g \in GameIds, p \in PlayerIds :
            ( /\ next_id < MaxFrames
              /\ \E i \in ThreadsOf(PlayerKey(g, p)) : InSlowCall(threads[i]) ) =>
                 ENABLED OnFrameNew(g, p, 1, "bytes"))
    /\ [][\A k \in Keys :
            ( /\ Len(appended'[k]) > Len(appended[k])
              /\ processing_flags[k]
              /\ \E i \in ThreadsOf(k) : InSlowCall(threads[i]) ) =>
                 /\ threads' = threads
                 /\ IsPrefix(frame_buffers[k], frame_buffers'[k])
                 /\ Len(frame_buffers'[k]) - Len(frame_buffers[k])
                       = Len(appended'[k]) - Len(appended[k])]_vars

FramesAppendedDuringAnalysis ==
    \E i \in 1..Len(threads) :
       LET t == threads[i]
       IN  /\ t.pc = "analyze"
           /\ processing_flags[t.key]
           /\ frame_buffers[t.key] # <<>>
           /\ frame_buffers[t.key][1].id > t.batch[BATCH_SIZE].id

\* C27: a key's buffer is bounded by a fixed bound however many frame:new
\* events arrive while a batch of the key is in flight: of the frames that
\* arrive after the dispatch, the buffer never holds all (here: with a batch
\* in flight the buffer stays below the number of frames that can arrive).
BufferBoundedWhileInFlight ==
    \A k \in Keys :
       processing_flags[k] => Len(frame_buffers[k]) < MaxFrames - BATCH_SIZE

\* ------------------------------ VisionService.analyze_frame_batch_detailed
\* The call returns.
AnalyzeFrameBatchDetailed ==
    /\ request.fn = "analyze_frame_batch_detailed"
    /\ response.fn = "None"
    /\ LET out == analyze_frame_batch_detailed(request.batch_sources, request.summary)
       IN  response' = [fn |-> request.fn, result |-> out.result, prompts |-> out.prompts]
    /\ UNCHANGED <<EngineVars, request, commands>>

\* A batch of _process_batch_sync at its vision call.
VisionInit ==
    /\ ai_active = TRUE
    /\ frame_buffers = [k \in Keys |-> <<>>]
    /\ processing_flags = [k \in Keys |-> FALSE]
    /\ previous_states = [k \in Keys |-> InitialState]
    /\ known = <<>>
    /\ threads = <<>>
    /\ disc_todo = <<>>
    /\ status_todo = <<>>
    /\ next_id = 0
    /\ lifecycle = 0
    /\ handled = NoEvent
    /\ outbox = <<>>
    /\ spoken = <<>>
    /\ raised = NoError
    /\ appended = [k \in Keys |-> <<>>]
    /\ dispatched = [k \in Keys |-> <<>>]
    /\ \E b \in SourceBatches, summary \in SummaryOutcomes :
          request = [fn |-> "analyze_frame_batch_detailed",
                     batch_sources |-> b, summary |-> summary]
    /\ response = NoCall
    /\ commands = Commands
    /\ buffer_locks = {}

VisionNext == AnalyzeFrameBatchDetailed

VisionSpec == VisionInit /\ [][VisionNext]_vars

\* The batch analysis has returned.
BatchAnalysisReturned == response.fn = "analyze_frame_batch_detailed"

\* The frames of the batch whose sub-analysis succeeded.
Succeeded ==
    {i \in DOMAIN request.batch_sources :
        request.batch_sources[i].outcome \notin {"timeout", "error"}}

\* The successful sub-results with the given status.
SucceededWith(status) ==
    {i \in Succeeded : request.batch_sources[i].outcome = status}

\* The status the batch has by the rule danger, then needs_adjustment, then ok.
AggregatedStatus ==
    IF SucceededWith("danger") # {} THEN "danger"
    ELSE IF SucceededWith("needs_adjustment") # {} THEN "needs_adjustment"
    ELSE "ok"

\* C28: the overall status of a batch is danger if a successful sub-result
\* is danger, else needs_adjustment if one is needs_adjustment, else ok, the
\* failed sub-analyses left out; the counts returned with a batch that had a
\* successful sub-analysis are the numbers of successful sub-results with
\* each status.
BatchStatusAggregated ==
    BatchAnalysisReturned =>
        /\ response.result.status = AggregatedStatus
        /\ Succeeded # {} =>
              /\ response.result.danger_count = Cardinality(SucceededWith("danger"))
              /\ response.result.adjustment_count =
                    Cardinality(SucceededWith("needs_adjustment"))
              /\ response.result.ok_count = Cardinality(SucceededWith("ok"))

MixedBatchAggregated ==
    /\ BatchAnalysisReturned
    /\ SucceededWith("danger") # {}
    /\ SucceededWith("needs_adjustment") # {}
    /\ SucceededWith("ok") # {}
    /\ Succeeded # DOMAIN request.batch_sources
    /\ response.result.status = "danger"
    /\ response.result.adjustment_count = 1

\* The fixed fallback message of a status.
FallbackOf(status) ==
    CASE status = "danger" -> "Safety alert! Please review your current actions."
      [] status = "needs_adjustment" -> "Good progress! Consider making some adjustments."
      [] status = "ok" -> "Excellent work! Keep maintaining those safety standards."

\* C29: a batch none of whose sub-analyses succeeds returns status ok, the
\* monitoring message and has_changes false, and the summary call is not made;
\* a batch whose summary call fails returns the aggregated status and the
\* fallback message of that status.
DegradedBatchResults ==
    BatchAnalysisReturned =>
        /\ Succeeded = {} =>
              /\ response.result = [status |-> "ok",
                                    message |-> "I'm monitoring the workspace. Keep working safely!",
                                    has_changes |-> FALSE]
              /\ response.prompts = <<>>
        /\ (Succeeded # {} /\ request.summary = "raise") =>
              /\ Len(response.prompts) = 1
              /\ response.result.status = AggregatedStatus
              /\ response.result.message = FallbackOf(AggregatedStatus)

EveryFrameFailedBatchReturned ==
    /\ BatchAnalysisReturned
    /\ Len(request.batch_sources) = BATCH_SIZE
    /\ Succeeded = {}
    /\ \E i, j \in DOMAIN request.batch_sources :
          /\ request.batch_sources[i].outcome = "timeout"
          /\ request.batch_sources[j].outcome = "error"
    /\ response.result.status = "ok"

\* ----------------------------------- VoiceCommandService and POST /command
\* The texts of the requests (sequences of characters): texts with nothing
\* but spaces, and a text with words.
BlankTexts == {<<>>, <<" ">>, <<" ", " ">>}
SpokenTexts == {<<" ", "B", "a", "c", "k", " ">>}

\* str.strip()
Strip(s) ==
    LET kept == {i \in 1..Len(s) : s[i] # " "}
    IN  IF kept = {} THEN <<>>
        ELSE SubSeq(s, CHOOSE i \in kept : \A j \in kept : i <= j,
                       CHOOSE i \in kept : \A j \in kept : i >= j)

\* user_text = request.text.lower().strip()
UserText(text) == Strip(Lower(text))

\* The scores process.extractOne can give.
Scores == 0..100

\* Variant: a score equal to the threshold is no match.
process_command_above_threshold(match, score) ==
    IF score > FUZZY_THRESHOLD
    THEN LET command == get_command(match)
         IN  [result |-> [status |-> "success",
                          suggestion |-> HandlerText(command.handler),
                          canonical |-> command.canonical,
                          score |-> score],
              handler_calls |-> <<command.handler>>]
    ELSE LET command == get_command(match)
         IN  [result |-> [status |-> "no_match",
                          suggestion |-> "Sorry, I didn't catch that.",
                          best_guess |-> command.canonical,
                          score |-> score],
              handler_calls |-> <<>>]

\* process_command(user_text), with (match, score) what process.extractOne
\* gives for user_text: the dict it returns and the handlers it called.
process_command(match, score) ==
    IF score >= FUZZY_THRESHOLD
    THEN LET command == get_command(match)
         IN  [result |-> [status |-> "success",
                          suggestion |-> HandlerText(command.handler),
                          canonical |-> command.canonical,
                          score |-> score],
              handler_calls |-> <<command.handler>>]
    ELSE LET command == get_command(match)
         IN  [result |-> [status |-> "no_match",
                          suggestion |-> "Sorry, I didn't catch that.",
                          best_guess |-> command.canonical,
                          score |-> score],
              handler_calls |-> <<>>]

\* Variant: only an executed command is spoken.
ProcessVoiceCommandSpeakingSuccess(audio) ==
    /\ request.fn = "process_voice_command"
    /\ response.fn = "None"
    /\ response' =
          IF UserText(request.text) = <<>>
          THEN [fn |-> request.fn,
                result |-> [status_code |-> 500, detail |-> "Command processing failed"],
                handler_calls |-> <<>>,
                tts_calls |-> <<>>]
          ELSE LET out == process_command(request.match, request.score)
                   result == out.result
               IN  [fn |-> request.fn,
                    result |->
                       IF result.status = "success"
                       THEN [status |-> "success",
                             suggestion |-> result.suggestion,
                             speak_back |-> audio,
                             command_back |-> result.canonical,
                             score |-> result.score,
                             best_guess |-> None]
                       ELSE [status |-> "no_match",
                             suggestion |-> result.suggestion,
                             speak_back |-> None,
                             command_back |-> None,
                             score |-> result.score,
                             best_guess |-> result.best_guess],
                    handler_calls |-> out.handler_calls,
                    tts_calls |-> IF result.status = "success"
                                 THEN <<[text |-> result.suggestion, audio |-> audio]>>
                                 ELSE <<>>]
    /\ UNCHANGED <<EngineVars, request, commands>>

\* process_voice_command(request): the HTTPException raised for an empty
\* text is caught by the handler's own except clause and becomes a 500.
ProcessVoiceCommand(audio) ==
    /\ request.fn = "process_voice_command"
    /\ response.fn = "None"
    /\ response' =
          IF UserText(request.text) = <<>>
          THEN [fn |-> request.fn,
                result |-> [status_code |-> 500, detail |-> "Command processing failed"],
                handler_calls |-> <<>>,
                tts_calls |-> <<>>]
          ELSE LET out == process_command(request.match, request.score)
                   result == out.result
               IN  [fn |-> request.fn,
                    result |->
                       IF result.status = "success"
                       THEN [status |-> "success",
                             suggestion |-> result.suggestion,
                             speak_back |-> audio,
                             command_back |-> result.canonical,
                             score |-> result.score,
                             best_guess |-> None]
                       ELSE [status |-> "no_match",
                             suggestion |-> result.suggestion,
                             speak_back |-> audio,
                             command_back |-> None,
                             score |-> result.score,
                             best_guess |-> result.best_guess],
                    handler_calls |-> out.handler_calls,
                    tts_calls |-> <<[text |-> result.suggestion, audio |-> audio]>>]
    /\ UNCHANGED <<EngineVars, request, commands>>

\* A POST /command request has arrived; the engine is as constructed.
VoiceInit ==
    /\ ai_active = FALSE
    /\ frame_buffers = [k \in Keys |-> <<>>]
    /\ processing_flags = [k \in Keys |-> FALSE]
    /\ previous_states = [k \in Keys |-> InitialState]
    /\ known = <<>>
    /\ threads = <<>>
    /\ disc_todo = <<>>
    /\ status_todo = <<>>
    /\ next_id = 0
    /\ lifecycle = 0
    /\ handled = NoEvent
    /\ outbox = <<>>
    /\ spoken = <<>>
    /\ raised = NoError
    /\ appended = [k \in Keys |-> <<>>]
    /\ dispatched = [k \in Keys |-> <<>>]
    /\ \/ \E text \in BlankTexts :
             request = [fn |-> "process_voice_command", text |-> text,
                        match |-> "move forward", score |-> 0]
       \/ \E text \in SpokenTexts, match \in Phrases, score \in Scores :
             request = [fn |-> "process_voice_command", text |-> text,
                        match |-> match, score |-> score]
    /\ response = NoCall
    /\ commands = Commands
    /\ buffer_locks = {}

VoiceNext == \E audio \in TtsResults : ProcessVoiceCommand(audio)

VoiceSpec == VoiceInit /\ [][VoiceNext]_vars

\* POST /command has answered a request with a text.
VoiceCommandAnswered ==
    /\ response.fn = "process_voice_command"
    /\ UserText(request.text) # <<>>

\* C30: the threshold rule of the command resolver: with a score of at least
\* the threshold the handler of the matched phrase is executed exactly once
\* and the response is success with the phrase's canonical command and the
\* handler's acknowledgment; with a lower score no handler is executed and the
\* response is no_match with the canonical name of the best guess, the score
\* and the apology.
ThresholdRule ==
    VoiceCommandAnswered =>
        LET command == Commands[request.match]
        IN  IF request.score >= 75
            THEN /\ response.handler_calls = <<command.handler>>
                 /\ response.result.status = "success"
                 /\ response.result.command_back = command.canonical
                 /\ response.result.suggestion = HandlerText(command.handler)
            ELSE /\ response.handler_calls = <<>>
                 /\ response.result.status = "no_match"
                 /\ response.result.best_guess = command.canonical
                 /\ response.result.score = request.score
                 /\ response.result.suggestion = "Sorry, I didn't catch that."

CommandAtThresholdExecuted ==
    /\ VoiceCommandAnswered
    /\ request.score = FUZZY_THRESHOLD
    /\ response.result.status = "success"
    /\ response.handler_calls = <<"start_arvr">>
    /\ response.result.command_back = "start_game"

\* The four canonical commands.
CanonicalCommands == {"move_forward", "move_backward", "start_game", "exit_game"}

\* The canonical names a response of POST /command reports.
ReportedCanonical ==
    IF response.fn # "process_voice_command" \/ UserText(request.text) = <<>> THEN {}
    ELSE {response.result.command_back, response.result.best_guess} \ {None}

\* C31: every phrase of the command table resolves to one of the four
\* canonical commands with the handler of its list ("move forward" to
\* move_forward), the canonical name a response reports is one of the four,
\* and the table is never modified after startup.
CommandTableStatic ==
    /\ [](/\ DOMAIN commands =
               forward_commands \cup backward_commands \cup start_commands \cup exit_commands
          /\ \A phrase \in forward_commands :
                commands[phrase] = [canonical |-> "move_forward", handler |-> "move_forward"]
          /\ \A phrase \in backward_commands :
                commands[phrase] = [canonical |-> "move_backward", handler |-> "move_backward"]
          /\ \A phrase \in start_commands :
                commands[phrase] = [canonical |-> "start_game", handler |-> "start_arvr"]
          /\ \A phrase \in exit_commands :
                commands[phrase] = [canonical |-> "exit_game", handler |-> "exit_arvr"]
          /\ commands["move forward"].canonical = "move_forward"
          /\ ReportedCanonical \subseteq CanonicalCommands)
    /\ [][commands' = commands]_vars

BestGuessReported ==
    /\ response.fn = "process_voice_command"
    /\ UserText(request.text) # <<>>
    /\ request.match = "retreat"
    /\ response.result.status = "no_match"
    /\ ReportedCanonical = {"move_backward"}

\* C32 as stated: for every request with a text the text-to-speech service is
\* called exactly once, on the suggestion of the response, and the response
\* carries non-empty audio.
EveryAnswerCarriesAudio ==
    VoiceCommandAnswered =>
        /\ Len(response.tts_calls) = 1
        /\ response.tts_calls[1].text = response.result.suggestion
        /\ response.result.speak_back \notin {None, ""}

\* C32, amended: for every request with a text, on the success and on the
\* no_match path, the text-to-speech service is called exactly once, on the
\* suggestion of the response, and the response carries what the call
\* returned: the audio, or none when the rendering failed.
EveryAnswerSpokenOnce ==
    VoiceCommandAnswered =>
        /\ Len(response.tts_calls) = 1
        /\ response.tts_calls[1].text = response.result.suggestion
        /\ response.result.speak_back = response.tts_calls[1].audio
        /\ response.result.speak_back \in TtsResults

NoMatchAnswerSpoken ==
    /\ VoiceCommandAnswered
    /\ response.result.status = "no_match"
    /\ response.tts_calls = <<[text |-> "Sorry, I didn't catch that.", audio |-> "base64"]>>
    /\ response.result.speak_back = "base64"

\* C33: the is_processing flag of a key is true exactly when a batch of the
\* key has been dispatched and has not completed, in every reachable state.
InFlightFlagAccurate ==
    \A k \in Keys : processing_flags[k] <=> Executing(k) # {}

\* C34: two distinct (game id, player id) pairs never have the same key, so
\* an event of one pair never touches the frames, the flag or the state of
\* another pair: a game:started of one pair leaves the buffer, the flag and
\* the state of every other pair as they were.
KeysUniquePerPair ==
    [][\A one, other \in ColonPairs :
          (one # other /\ HandlesGameStarted(one[1], one[2])) =>
             LET key == PlayerKey(other[1], other[2])
             IN  /\ frame_buffers'[key] = frame_buffers[key]
                 /\ processing_flags'[key] = processing_flags[key]
                 /\ previous_states'[key] = previous_states[key]]_vars

\* C35: in every reachable state the status of each key's previous state is
\* ok, needs_adjustment, danger or none: "error", or any other value, is never
\* adopted; the flag first_message_sent is a boolean.
SessionStateWellTyped ==
    \A k \in Keys :
       /\ previous_states[k].status \in {"ok", "needs_adjustment", "danger", None}
       /\ previous_states[k].first_message_sent \in BOOLEAN

DangerAdopted ==
    \E k \in Keys :
       /\ previous_states[k].status = "danger"
       /\ previous_states[k].first_message_sent
       /\ previous_states[k].analysis_result # NoneMsg

\* The thread is inside _should_send_update: it has read the key's state and
\* has reads or writes of it still to do.
InGate(t) ==
    t.pc \in {"l228", "l245", "l253", "l261", "l265",
              "w_status", "w_observation", "w_analysis_result"}

\* C36: change gate evaluations of one key never overlap: at most one thread
\* of a key is inside the gate, and while a thread is between the gate's
\* first read and its last write no other evaluation and no lifecycle reset
\* changes the key's previous state.
GateEvaluationsSerialized ==
    /\ [](\A k \in Keys : Cardinality({i \in ThreadsOf(k) : InGate(threads[i])}) <= 1)
    /\ [][\A i \in 1..Len(threads) :
             (InGate(threads[i]) /\ threads'[i].pc = threads[i].pc) =>
                previous_states'[threads[i].key] = previous_states[threads[i].key]]_vars

BlankTextRejected ==
    (response.fn = "process_voice_command" /\ UserText(request.text) = <<>>) =>
        /\ response.result = [status_code |-> 400, detail |-> "Text cannot be empty"]
        /\ response.handler_calls = <<>>
        /\ response.tts_calls = <<>>

\* C39: the session state records only delivered notifications: when a batch
\* thread whose message the key's state holds as sent (first_message_sent
\* with the thread's message as analysis_result) leaves the respond step, by
\* the emit or by an exception, the step emits an ai:response for its batch
\* carrying that message.
OnlyDeliveredMessagesRecorded ==
    [][\A i \in 1..Len(threads) :
          LET t == threads[i]
          IN  (/\ t.pc = "l377"
               /\ threads'[i].pc # "l377"
               /\ previous_states[t.key].first_message_sent
               /\ previous_states[t.key].analysis_result = t.analysis.message) =>
                 \E n \in 1..Len(outbox') :
                    /\ outbox'[n].event = "ai:response"
                    /\ outbox'[n].batch = t.batch
                    /\ outbox'[n].result = t.analysis.message]_vars

\* C40: the per-key locking is deadlock-free. No thread holds two key locks
\* and no lock has two holders; whoever holds a lock can run its section,
\* which releases it, so a thread waiting for the lock is let in; and no step
\* changes the buffer or the flag of a key whose lock is held before and
\* after the step: a section that has done its work has released the lock, on
\* the exception paths too.
LockingDeadlockFree ==
    /\ [](/\ \A one, other \in buffer_locks :
               (one.owner = other.owner \/ one.key = other.key) => one = other
          /\ \A l \in buffer_locks : ENABLED Section(l.owner, l.key))
    /\ [][\A l \in buffer_locks \cap buffer_locks' :
             /\ frame_buffers'[l.key] = frame_buffers[l.key]
             /\ processing_flags'[l.key] = processing_flags[l.key]]_vars

\* A batch thread waits at its completion section while a frame handler holds
\* the lock of its key, and the handler of a lifecycle event holds the lock
\* of the other key.
ThreadWaitsForHeldLock ==
    \E i \in 1..Len(threads) :
       /\ threads[i].pc \in {"l347", "l414", "l445"}
       /\ Holds(Handler("on_frame_new"), threads[i].key)
       /\ \E l \in buffer_locks : l.owner \in LifecycleHandlers /\ l.key # threads[i].key


============================================================================
